---- MODULE Spec2Model ----
(***************************************************************************)
(* Merkle multi-proofs of programeth/merkle-trees.                         *)
(*                                                                         *)
(*  - the balanced, index-based generator / verifier (multi-proof.js),     *)
(*  - the combined flag decoder getRoot / getNewRoot in its boolean-array  *)
(*    and packed-bit encodings (combined-proofs, src/unnamed/part_000),    *)
(*  - getMinimumIndex on 32-bit words.                                     *)
(*  - the contract Index_Multi_Proofs: get_root, get_roots, use and        *)
(*    use_and_update on the stored root.                                   *)
(*                                                                         *)
(* A digest is a sequence of integer tokens.  Keccak is modelled as a      *)
(* collision-free constructor: hash(b) prefixes the token 0 to its input,  *)
(* so hashNode(l, r) = <<0>> \o l \o r is the prefix (Polish) notation of  *)
(* the hash tree and two different trees have different digests.  Leaf    *)
(* digests are one-token sequences <<k>> with k > 0.  Null (the empty      *)
(* sequence) is JavaScript's null / undefined; Thrown is the value of an   *)
(* expression whose evaluation throws.                                     *)
(***************************************************************************)
EXTENDS Integers, Sequences, FiniteSets, TLC

VARIABLES gen, ver, call, st, mi

vars == <<gen, ver, call, st, mi>>

\* ------------------------------------------------------------- bounds
\* Depth of the largest balanced tree of the index-based multi-proof.
MaxDepth == 2
\* Largest elementCount of a tree decoded by getRoot / getNewRoot.
MaxElementCount == 8
\* Largest number of appended leaves given to getNewRoot.
MaxAppend == 3
\* Longest arbitrary (not generated) flags / skips array.
MaxHashCount == 3
\* Most bits set in an elementCount given to getMinimumIndex.
MaxSetBits == 2
\* Number of different leaf digests given to the node combiner.
MaxLeafDigests == 3

\* ------------------------------------------------------------- digests
Null == <<>>
Thrown == <<-1>>

\* Keccak-256 of a buffer.
hash(buffer) == <<0>> \o buffer

\* Buffer.compare: byte-wise lexicographic order, -1 / 0 / 1.
RECURSIVE BufferCompare(_, _)
BufferCompare(a, b) ==
  IF a = <<>> THEN (IF b = <<>> THEN 0 ELSE -1)
  ELSE IF b = <<>> THEN 1
  ELSE IF Head(a) < Head(b) THEN -1
  ELSE IF Head(a) > Head(b) THEN 1
  ELSE BufferCompare(Tail(a), Tail(b))

\* Buffer.concat of a missing operand throws a TypeError.
hashNode(left, right) ==
  IF left = Null \/ right = Null \/ left = Thrown \/ right = Thrown THEN Thrown
  ELSE hash(left \o right)

\* sortHashNode concatenating the pair in the order given.
sortHashNode_NoSort(left, right) ==
  IF left = Null \/ right = Null \/ left = Thrown \/ right = Thrown THEN Thrown
  ELSE hash(left \o right)

\* assert(left && right) fails on a missing operand; otherwise the pair is
\* sorted ascending before it is concatenated.
sortHashNode(left, right) ==
  IF left = Null \/ right = Null \/ left = Thrown \/ right = Thrown THEN Thrown
  ELSE IF BufferCompare(left, right) > 0 THEN hash(right \o left)
  ELSE hash(left \o right)

getHashFunction(sortedHash, left, right) ==
  IF sortedHash THEN sortHashNode(left, right) ELSE hashNode(left, right)

\* Big-endian 32-byte encoding of a number: one token per number, disjoint
\* from the leaf tokens, so that different numbers encode differently.
to32ByteBuffer(number) == <<1000 + number>>

\* 2^n
RECURSIVE Pow2(_)
Pow2(n) == IF n = 0 THEN 1 ELSE 2 * Pow2(n - 1)

\* ------------------------------------------------------------- balanced tree
\* The leaf digest at position i; with pattern "same" every leaf holds the
\* same element.
LeafAt(pattern, i) == IF pattern = "same" THEN <<10>> ELSE <<10 + i>>

\* Level-order array of a balanced tree: index 1 the root, leaves at
\* leafCount .. 2*leafCount-1, index 0 the mixed root.
RECURSIVE TreeNode(_, _, _)
TreeNode(pattern, leafCount, i) ==
  IF i >= leafCount THEN LeafAt(pattern, i - leafCount)
  ELSE hashNode(TreeNode(pattern, leafCount, 2 * i), TreeNode(pattern, leafCount, 2 * i + 1))

buildTree(pattern, leafCount) ==
  [i \in 0 .. (2 * leafCount - 1) |->
     IF i = 0 THEN hashNode(to32ByteBuffer(leafCount), TreeNode(pattern, leafCount, 1))
     ELSE TreeNode(pattern, leafCount, i)]

\* Math.log2(tree.length) - 1
RECURSIVE Log2(_)
Log2(n) == IF n <= 1 THEN 0 ELSE 1 + Log2(n \div 2)

getDepthFromTree(tree) == Log2(Cardinality(DOMAIN tree)) - 1

validateMixedRoot(mixedRoot, root, leafCount) ==
  hashNode(to32ByteBuffer(leafCount), root) = mixedRoot

\* The members of a set of indices in descending order.
RECURSIVE Descending(_)
Descending(S) ==
  IF S = {} THEN <<>>
  ELSE LET m == CHOOSE x \in S : \A y \in S : y <= x
       IN <<m>> \o Descending(S \ {m})

\* ------------------------------------------------------------- generateMultiProof
GenIdle == [pc |-> "idle", tree |-> <<>>, indices |-> <<>>, depth |-> 0, leafCount |-> 0,
            known |-> <<>>, values |-> <<>>, decommitments |-> <<>>, i |-> 0]

\* Entry of generateMultiProof(tree, indices): lines 10-15.
generateMultiProofEnter(tree, indices) ==
  LET depth == getDepthFromTree(tree)
      leafCount == Pow2(depth)
      nodeCount == 2 * leafCount
  IN [pc |-> "indices", tree |-> tree, indices |-> indices, depth |-> depth,
      leafCount |-> leafCount, known |-> [n \in 0 .. (nodeCount - 1) |-> FALSE],
      values |-> <<>>, decommitments |-> <<>>, i |-> 0]

\* Where the generator continues once the loop over the indices is over:
\* the walk over the internal nodes starts at leafCount - 1 and there is
\* nothing to walk when the tree is a single leaf.
GenAfterIndices(g) ==
  IF g.leafCount - 1 > 0 THEN [g EXCEPT !.pc = "nodes", !.i = g.leafCount - 1]
  ELSE [g EXCEPT !.pc = "returned", !.i = 0]

\* One iteration of the loop over the requested indices (i is 0-based as in
\* the source, the sequences are 1-based).
generateMultiProofIndex(g) ==
  IF ~(g.i = 0 \/ g.indices[g.i] > g.indices[g.i + 1])
  THEN [g EXCEPT !.pc = "assert"]
  ELSE LET at == Pow2(g.depth) + g.indices[g.i + 1]
           g1 == [g EXCEPT !.known[at] = TRUE,
                           !.values = Append(g.values, g.tree[at]),
                           !.i = g.i + 1]
       IN IF g1.i < Len(g.indices) THEN g1 ELSE GenAfterIndices(g1)

\* generateMultiProofNode marking a node known only when both children are.
generateMultiProofNode_BothKnown(g) ==
  LET left == g.known[2 * g.i]
      right == g.known[2 * g.i + 1]
      d1 == IF left /\ ~right THEN Append(g.decommitments, g.tree[2 * g.i + 1])
            ELSE g.decommitments
      d2 == IF right /\ ~left THEN Append(d1, g.tree[2 * g.i]) ELSE d1
      g1 == [g EXCEPT !.decommitments = d2, !.known[g.i] = left /\ right, !.i = g.i - 1]
  IN IF g1.i > 0 THEN g1 ELSE [g1 EXCEPT !.pc = "returned"]

\* Mutant: the decommitment of a node is put in front of the list.
generateMultiProofNode_Prepend(g) ==
  LET left == g.known[2 * g.i]
      right == g.known[2 * g.i + 1]
      d1 == IF left /\ ~right THEN <<g.tree[2 * g.i + 1]>> \o g.decommitments
            ELSE g.decommitments
      d2 == IF right /\ ~left THEN <<g.tree[2 * g.i]>> \o d1 ELSE d1
      g1 == [g EXCEPT !.decommitments = d2, !.known[g.i] = left \/ right, !.i = g.i - 1]
  IN IF g1.i > 0 THEN g1 ELSE [g1 EXCEPT !.pc = "returned"]

\* One iteration of the walk over the internal nodes, in descending index.
generateMultiProofNode(g) ==
  LET left == g.known[2 * g.i]
      right == g.known[2 * g.i + 1]
      d1 == IF left /\ ~right THEN Append(g.decommitments, g.tree[2 * g.i + 1])
            ELSE g.decommitments
      d2 == IF right /\ ~left THEN Append(d1, g.tree[2 * g.i]) ELSE d1
      g1 == [g EXCEPT !.decommitments = d2, !.known[g.i] = left \/ right, !.i = g.i - 1]
  IN IF g1.i > 0 THEN g1 ELSE [g1 EXCEPT !.pc = "returned"]

\* The object generateMultiProof returns.
GeneratedProof(g) ==
  [mixedRoot |-> g.tree[0], root |-> g.tree[1], leafCount |-> g.leafCount,
   indices |-> g.indices, values |-> g.values, decommitments |-> g.decommitments]

\* ------------------------------------------------------------- verifyMultiProof
VerIdle == [pc |-> "idle", mixedRoot |-> Null, root |-> Null, leafCount |-> 0,
            indices |-> <<>>, values |-> <<>>, decommitments |-> <<>>,
            decommits |-> <<>>, queue |-> <<>>, result |-> FALSE, hashed |-> 0,
            tamper |-> [kind |-> "none", pos |-> 0, with |-> <<>>]]

\* Mutant: the mixed root is not checked.
verifyMultiProofEnter_NoMixedRoot(p, tamper) ==
  [pc |-> "loop", mixedRoot |-> p.mixedRoot, root |-> p.root,
   leafCount |-> p.leafCount, indices |-> p.indices, values |-> p.values,
   decommitments |-> p.decommitments, decommits |-> p.decommitments,
   queue |-> [k \in 1 .. Len(p.values) |->
                [index |-> p.leafCount + p.indices[k], value |-> p.values[k]]],
   result |-> FALSE, hashed |-> 0, tamper |-> tamper]

\* Entry of verifyMultiProof: the mixed-root check, the private copy of the
\* decommitments and the queue seeded with one entry per value.  hashed
\* counts the hashNode calls made on values and decommitments.
verifyMultiProofEnter(p, tamper) ==
  LET v0 == [pc |-> "loop", mixedRoot |-> p.mixedRoot, root |-> p.root,
             leafCount |-> p.leafCount, indices |-> p.indices, values |-> p.values,
             decommitments |-> p.decommitments, decommits |-> <<>>, queue |-> <<>>,
             result |-> FALSE, hashed |-> 0, tamper |-> tamper]
  IN IF ~validateMixedRoot(p.mixedRoot, p.root, p.leafCount)
     THEN [v0 EXCEPT !.pc = "returned", !.result = FALSE]
     ELSE [v0 EXCEPT !.decommits = p.decommitments,
                     !.queue = [k \in 1 .. Len(p.values) |->
                                  [index |-> p.leafCount + p.indices[k], value |-> p.values[k]]]]

\* decommits.shift(): the first decommitment, undefined when none is left.
ShiftValue(s) == IF s = <<>> THEN Null ELSE Head(s)
ShiftRest(s) == IF s = <<>> THEN <<>> ELSE Tail(s)

\* VerPush pushing the merged entry at the index of the dequeued one.
VerPush_NoHalving(v, rest, decommits, index, value) ==
  IF value = Thrown THEN [v EXCEPT !.pc = "thrown", !.hashed = v.hashed + 1]
  ELSE [v EXCEPT !.queue = Append(rest, [index |-> index, value |-> value]),
                 !.decommits = decommits, !.hashed = v.hashed + 1]

\* VerPush shifting the array of the caller: decommits is decommitments
\* itself, not the copy of line 49.
VerPush_NoClone(v, rest, decommits, index, value) ==
  IF value = Thrown THEN [v EXCEPT !.pc = "thrown", !.hashed = v.hashed + 1]
  ELSE [v EXCEPT !.queue = Append(rest, [index |-> index \div 2, value |-> value]),
                 !.decommits = decommits, !.decommitments = decommits, !.hashed = v.hashed + 1]

\* The entry pushed by one merge, or the throw of hashNode on undefined.
VerPush(v, rest, decommits, index, value) ==
  IF value = Thrown THEN [v EXCEPT !.pc = "thrown", !.hashed = v.hashed + 1]
  ELSE [v EXCEPT !.queue = Append(rest, [index |-> index \div 2, value |-> value]),
                 !.decommits = decommits, !.hashed = v.hashed + 1]

\* Mutant: the reconstructed value at tree index 1 is accepted unseen.
verifyMultiProofLoop_NoCompare(v) ==
  IF ~(Len(v.queue) >= 1) THEN [v EXCEPT !.pc = "assert"]
  ELSE LET index == Head(v.queue).index
           value == Head(v.queue).value
           rest == Tail(v.queue)
       IN IF index = 1
          THEN [v EXCEPT !.pc = "returned", !.result = TRUE, !.queue = rest]
          ELSE IF index % 2 = 0
          THEN VerPush(v, rest, ShiftRest(v.decommits), index,
                       hashNode(value, ShiftValue(v.decommits)))
          ELSE IF Len(rest) > 0 /\ Head(rest).index = index - 1
          THEN VerPush(v, Tail(rest), v.decommits, index,
                       hashNode(Head(rest).value, value))
          ELSE VerPush(v, rest, ShiftRest(v.decommits), index,
                       hashNode(ShiftValue(v.decommits), value))

\* One iteration of the while (true) loop of verifyMultiProof.
verifyMultiProofLoop(v) ==
  IF ~(Len(v.queue) >= 1) THEN [v EXCEPT !.pc = "assert"]
  ELSE LET index == Head(v.queue).index
           value == Head(v.queue).value
           rest == Tail(v.queue)
       IN IF index = 1
          THEN [v EXCEPT !.pc = "returned", !.result = (value = v.root), !.queue = rest]
          ELSE IF index % 2 = 0
          THEN VerPush(v, rest, ShiftRest(v.decommits), index,
                       hashNode(value, ShiftValue(v.decommits)))
          ELSE IF Len(rest) > 0 /\ Head(rest).index = index - 1
          THEN VerPush(v, Tail(rest), v.decommits, index,
                       hashNode(Head(rest).value, value))
          ELSE VerPush(v, rest, ShiftRest(v.decommits), index,
                       hashNode(ShiftValue(v.decommits), value))

\* ------------------------------------------------------------- JavaScript arrays
\* An array is a function on 0 .. length-1; a read outside it gives undefined
\* and a write outside it extends it.
JsArray(n) == [k \in 0 .. (n - 1) |-> Null]
Get(arr, k) == IF k \in DOMAIN arr THEN arr[k] ELSE Null
Set(arr, k, v) == [x \in (DOMAIN arr) \cup {k} |-> IF x = k THEN v ELSE arr[x]]

\* Arguments are sequences; element k (0-based) of one, undefined outside.
At(seq, k) == IF (k + 1) \in DOMAIN seq THEN seq[k + 1] ELSE Null
\* flags[k] / skips[k] as a condition: undefined is falsy.
BoolAt(seq, k) == IF (k + 1) \in DOMAIN seq THEN seq[k + 1] ELSE FALSE

\* ------------------------------------------------------------- bit utilities
\* Bitwise and of two non-negative integers.
RECURSIVE BitAnd(_, _)
BitAnd(a, b) ==
  IF a = 0 \/ b = 0 THEN 0
  ELSE (a % 2) * (b % 2) + 2 * BitAnd(a \div 2, b \div 2)

\* (x * 0x1010101) >> 24 on a 32-bit word x >= 0: the product is reduced
\* modulo 2^32 and its top byte is read as a signed byte.  The four partial
\* products x << 0, 8, 16, 24 are added in two halves, so that no
\* intermediate value leaves the range of the model's integers.
MulShift24(x) ==
  LET hi == (x \div 16777216) + ((x % 16777216) \div 65536) + ((x % 65536) \div 256) + (x % 256)
      lo == (x % 16777216) + ((x % 65536) * 256) + ((x % 256) * 65536)
      byte == (hi + (lo \div 16777216)) % 256
  IN IF byte >= 128 THEN byte - 256 ELSE byte

\* bitCount32 for 0 <= n < 2^31, where n >> k is a division by 2^k.
bitCount32(n) ==
  LET m1 == n - BitAnd(n \div 2, 1431655765)
      m2 == BitAnd(m1, 858993459) + BitAnd(m1 \div 4, 858993459)
  IN MulShift24(BitAnd(m2 + (m2 \div 16), 252645135))

\* Width of the packed flags / skips words.
BitVectorBits == 256
\* to32ByteBoolBuffer accepts fewer than this many booleans.
BoolBufferLimit == 257

\* A 32-byte word is the set of the positions of its 1-bits (bit 0 the least
\* significant).  to32ByteBoolBuffer ors 1 << i for every true booleans[i].
to32ByteBoolBuffer(booleans) ==
  IF Len(booleans) < BoolBufferLimit
  THEN {k \in 0 .. (Len(booleans) - 1) : booleans[k + 1]} \cap (0 .. (BitVectorBits - 1))
  ELSE {-1}

\* leftShift1 carrying the bit shifted out of the word back to bit 0.
leftShift1_Rotate(word) == {(k + 1) % BitVectorBits : k \in word}

\* leftShift(word, 1): the bit shifted out of the word is lost.
leftShift1(word) == {k + 1 : k \in word} \cap (0 .. (BitVectorBits - 1))

\* and(word, bitCheck).equals(bitCheck)
BitSet(word, bitCheck) == (word \cap bitCheck) = bitCheck

\* ------------------------------------------------------------- getMinimumIndex
\* The bitwise operators of JavaScript work on 32-bit words.
WordBits == 32
WordPositions == 0 .. (WordBits - 1)

\* A 32-bit word is the set of the positions of its 1-bits.  A Number is a
\* sign and a magnitude, the magnitude again a set of bit positions.
Uint32(word) == [neg |-> FALSE, mag |-> word]

\* word + 1 modulo 2^32
Increment(word) ==
  LET clear == WordPositions \ word
  IN IF clear = {} THEN {}
     ELSE LET k == CHOOSE c \in clear : \A d \in clear : c <= d
          IN {b \in word : b > k} \cup {k}

\* The word read as a two's complement integer: what &, | and << return.
Int32(word) ==
  IF (WordBits - 1) \in word
  THEN [neg |-> TRUE, mag |-> Increment(WordPositions \ word)]
  ELSE [neg |-> FALSE, mag |-> word]

\* word << shifts, the bits shifted out of the word lost
ShiftLeft(word, shifts) == {b + shifts : b \in word} \cap WordPositions

\* word >>> 1
ShiftRightUnsigned1(word) == {b - 1 : b \in word \ {0}}

\* x < y on Numbers
LessThan(x, y) ==
  LET below(m, n) == \E b \in n \ m : \A c \in WordPositions : c > b => (c \in m <=> c \in n)
  IN IF x.neg /\ ~y.neg THEN TRUE
     ELSE IF ~x.neg /\ y.neg THEN FALSE
     ELSE IF x.neg THEN below(y.mag, x.mag)
     ELSE below(x.mag, y.mag)

\* The locals of one call of getMinimumIndex: input is the argument,
\* elementCount the parameter as the loop rewrites it.  pc is "returned"
\* after the return of line 530 and "undefined" when the loop runs out.
MiIdle == [pc |-> "idle", input |-> {}, elementCount |-> {}, shifts |-> 0, ret |-> Uint32({})]

getMinimumIndexEnter(elementCount) ==
  [MiIdle EXCEPT !.pc = "loop", !.input = elementCount, !.elementCount = elementCount]

\* One evaluation of the loop head and the body (lines 529-533).
getMinimumIndex(m) ==
  IF ~(m.shifts < WordBits) THEN [m EXCEPT !.pc = "undefined"]
  ELSE IF 0 \in m.elementCount
  THEN [m EXCEPT !.pc = "returned",
                 !.ret = Int32(ShiftLeft(m.elementCount \ {0}, m.shifts))]
  ELSE [m EXCEPT !.elementCount = ShiftRightUnsigned1(@), !.shifts = @ + 1]

\* ------------------------------------------------------------- combined-proof decoder: state
\* The locals of one call of getRootBooleans / getRootBits /
\* getNewRootBooleans / getNewRootBits.  pc is "loop" in the flag loop,
\* "append" in the append pass of getNewRoot, and "returned",
\* "InvalidProof" (the failed assertion) or "thrown" (any other exception)
\* once the call is over.  bitCheck is the one-bit mask of the packed
\* encoding, ret the returned object.
StIdle ==
  [pc |-> "idle", i |-> 0, bitCheck |-> {}, readIndex |-> 0, writeIndex |-> 0,
   decommitmentIndex |-> 0, useLeafs |-> TRUE, appendNodeIndex |-> 0,
   readIndexOfAppendNode |-> 0, appendDecommitmentIndex |-> 0,
   appendDecommitments |-> <<>>, hash |-> Null, hashes |-> <<>>, newHashes |-> <<>>,
   oldRoot |-> Null, newRoot |-> Null, upperBound |-> 0, offset |-> 0, index |-> 0,
   ret |-> [root |-> Null, newRoot |-> Null]]

\* hashFunction(left, right) of the call.
HF(a, left, right) == getHashFunction(a.sortedHash, left, right)

\* ReadNode that never leaves the leaves for the queue of hashes.
ReadNode_LeafsOnly(useLeafs, leafs, hashes, k) == At(leafs, k)

\* useLeafs ? leafs[k] : hashes[k]
ReadNode(useLeafs, leafs, hashes, k) == IF useLeafs THEN At(leafs, k) ELSE Get(hashes, k)

\* ------------------------------------------------------------- getRootBooleans
getRootBooleansEnter(a) ==
  [StIdle EXCEPT !.pc = "loop",
                 !.hashes = JsArray(Len(a.leafs)),
                 !.appendNodeIndex = a.elementCount,
                 !.appendDecommitmentIndex = bitCount32(a.elementCount),
                 !.appendDecommitments = JsArray(bitCount32(a.elementCount))]

\* The skip case of one iteration (lines 45-74).
getRootBooleansSkip(a, s) ==
  LET leafCount == Len(a.leafs)
      skippedHash == ReadNode(s.useLeafs, a.leafs, s.hashes, s.readIndex)
      readIndex1 == s.readIndex + 1
      odd == s.appendNodeIndex % 2 = 1
  IN [s EXCEPT !.appendDecommitmentIndex = IF odd THEN @ - 1 ELSE @,
               !.appendDecommitments =
                  IF odd THEN Set(@, s.appendDecommitmentIndex - 1, skippedHash) ELSE @,
               !.hash = IF odd THEN skippedHash ELSE @,
               !.readIndexOfAppendNode = s.writeIndex,
               !.appendNodeIndex = @ \div 2,
               !.hashes = Set(@, s.writeIndex, skippedHash),
               !.useLeafs = IF s.useLeafs /\ readIndex1 = leafCount THEN FALSE ELSE @,
               !.readIndex = readIndex1 % leafCount,
               !.writeIndex = (s.writeIndex + 1) % leafCount,
               !.i = @ + 1]

\* getRootBooleansCombine leaving appendNodeIndex where it is (no line 102).
getRootBooleansCombine_NoHalving(a, s) ==
  LET leafCount == Len(a.leafs)
      flag == BoolAt(a.flags, s.i)
      nextReadIndex == (s.readIndex + 1) % leafCount
      appendHash == IF flag THEN ReadNode(s.useLeafs, a.leafs, s.hashes, nextReadIndex)
                    ELSE At(a.decommitments, s.decommitmentIndex)
      atAppendNode == s.readIndexOfAppendNode = s.readIndex
      odd == atAppendNode /\ s.appendNodeIndex % 2 = 1
      hash1 == IF odd THEN HF(a, appendHash, s.hash) ELSE s.hash
      right == IF flag THEN ReadNode(s.useLeafs, a.leafs, s.hashes, s.readIndex)
               ELSE At(a.decommitments, s.decommitmentIndex)
      readIndex1 == (IF flag THEN s.readIndex + 1 ELSE s.readIndex) % leafCount
      left == ReadNode(s.useLeafs, a.leafs, s.hashes, readIndex1)
      readIndex2 == readIndex1 + 1
      node == HF(a, left, right)
  IN IF hash1 = Thrown \/ node = Thrown THEN [s EXCEPT !.pc = "thrown"]
     ELSE [s EXCEPT !.appendDecommitmentIndex = IF odd THEN @ - 1 ELSE @,
                    !.appendDecommitments =
                       IF odd THEN Set(@, s.appendDecommitmentIndex - 1, appendHash) ELSE @,
                    !.hash = hash1,
                    !.readIndexOfAppendNode = IF atAppendNode THEN s.writeIndex ELSE @,
                    !.appendNodeIndex = @,
                    !.decommitmentIndex = IF flag THEN @ ELSE @ + 1,
                    !.hashes = Set(@, s.writeIndex, node),
                    !.useLeafs = IF s.useLeafs /\ readIndex2 = leafCount THEN FALSE ELSE @,
                    !.readIndex = readIndex2 % leafCount,
                    !.writeIndex = (s.writeIndex + 1) % leafCount,
                    !.i = @ + 1]

\* The combine case of one iteration (lines 76-113).
getRootBooleansCombine(a, s) ==
  LET leafCount == Len(a.leafs)
      flag == BoolAt(a.flags, s.i)
      nextReadIndex == (s.readIndex + 1) % leafCount
      appendHash == IF flag THEN ReadNode(s.useLeafs, a.leafs, s.hashes, nextReadIndex)
                    ELSE At(a.decommitments, s.decommitmentIndex)
      atAppendNode == s.readIndexOfAppendNode = s.readIndex
      odd == atAppendNode /\ s.appendNodeIndex % 2 = 1
      hash1 == IF odd THEN HF(a, appendHash, s.hash) ELSE s.hash
      right == IF flag THEN ReadNode(s.useLeafs, a.leafs, s.hashes, s.readIndex)
               ELSE At(a.decommitments, s.decommitmentIndex)
      readIndex1 == (IF flag THEN s.readIndex + 1 ELSE s.readIndex) % leafCount
      left == ReadNode(s.useLeafs, a.leafs, s.hashes, readIndex1)
      readIndex2 == readIndex1 + 1
      node == HF(a, left, right)
  IN IF hash1 = Thrown \/ node = Thrown THEN [s EXCEPT !.pc = "thrown"]
     ELSE [s EXCEPT !.appendDecommitmentIndex = IF odd THEN @ - 1 ELSE @,
                    !.appendDecommitments =
                       IF odd THEN Set(@, s.appendDecommitmentIndex - 1, appendHash) ELSE @,
                    !.hash = hash1,
                    !.readIndexOfAppendNode = IF atAppendNode THEN s.writeIndex ELSE @,
                    !.appendNodeIndex = IF atAppendNode THEN @ \div 2 ELSE @,
                    !.decommitmentIndex = IF flag THEN @ ELSE @ + 1,
                    !.hashes = Set(@, s.writeIndex, node),
                    !.useLeafs = IF s.useLeafs /\ readIndex2 = leafCount THEN FALSE ELSE @,
                    !.readIndex = readIndex2 % leafCount,
                    !.writeIndex = (s.writeIndex + 1) % leafCount,
                    !.i = @ + 1]

\* After the loop (lines 116-121): the root, the cross-check against the
\* accumulated append root, the returned copy.  equals of or on a missing
\* buffer and Buffer.from of a missing root throw a TypeError.
getRootBooleansReturn(a, s) ==
  LET leafCount == Len(a.leafs)
      root == IF s.useLeafs THEN At(a.leafs, 0)
              ELSE Get(s.hashes, (IF s.writeIndex = 0 THEN leafCount ELSE s.writeIndex) - 1)
  IN IF s.appendDecommitmentIndex # 1 /\ (s.hash = Null \/ root = Null)
     THEN [s EXCEPT !.pc = "thrown"]
     ELSE IF s.appendDecommitmentIndex # 1 /\ s.hash # root
     THEN [s EXCEPT !.pc = "InvalidProof"]
     ELSE IF root = Null THEN [s EXCEPT !.pc = "thrown"]
     ELSE [s EXCEPT !.pc = "returned", !.ret = [root |-> root, newRoot |-> Null]]

\* One evaluation of the loop head of getRootBooleans and what follows it.
getRootBooleans(a, s) ==
  IF s.i < Len(a.flags)
  THEN IF BoolAt(a.skips, s.i) THEN getRootBooleansSkip(a, s)
       ELSE getRootBooleansCombine(a, s)
  ELSE getRootBooleansReturn(a, s)

\* ------------------------------------------------------------- getRootBits
\* proof[0], proof[1] and proof.slice(2) are the fields flags, skips and
\* decommitments of a.proof.
getRootBitsEnter(a) ==
  [StIdle EXCEPT !.pc = "loop",
                 !.bitCheck = {0},
                 !.hashes = JsArray(Len(a.leafs)),
                 !.appendNodeIndex = a.elementCount,
                 !.appendDecommitmentIndex = bitCount32(a.elementCount),
                 !.appendDecommitments = JsArray(bitCount32(a.elementCount))]

\* getRootBitsReturn reading the root at writeIndex - 1 with no wrap-around.
getRootBitsReturn_NoWrap(a, s) ==
  LET leafCount == Len(a.leafs)
      root == IF s.useLeafs THEN At(a.leafs, 0)
              ELSE Get(s.hashes, s.writeIndex - 1)
  IN IF s.appendDecommitmentIndex # 1 /\ (s.hash = Null \/ root = Null)
     THEN [s EXCEPT !.pc = "thrown"]
     ELSE IF s.appendDecommitmentIndex # 1 /\ s.hash # root
     THEN [s EXCEPT !.pc = "InvalidProof"]
     ELSE IF root = Null THEN [s EXCEPT !.pc = "thrown"]
     ELSE [s EXCEPT !.pc = "returned", !.ret = [root |-> root, newRoot |-> Null]]

\* The end of the proof: skip bit and flag bit both set (lines 150-156).
getRootBitsReturn(a, s) ==
  LET leafCount == Len(a.leafs)
      root == IF s.useLeafs THEN At(a.leafs, 0)
              ELSE Get(s.hashes, (IF s.writeIndex = 0 THEN leafCount ELSE s.writeIndex) - 1)
  IN IF s.appendDecommitmentIndex # 1 /\ (s.hash = Null \/ root = Null)
     THEN [s EXCEPT !.pc = "thrown"]
     ELSE IF s.appendDecommitmentIndex # 1 /\ s.hash # root
     THEN [s EXCEPT !.pc = "InvalidProof"]
     ELSE IF root = Null THEN [s EXCEPT !.pc = "thrown"]
     ELSE [s EXCEPT !.pc = "returned", !.ret = [root |-> root, newRoot |-> Null]]

\* getRootBitsSkip recording every skipped node as an append decommitment.
getRootBitsSkip_AlwaysRecords(a, s) ==
  LET leafCount == Len(a.leafs)
      skippedHash == ReadNode(s.useLeafs, a.leafs, s.hashes, s.readIndex)
      readIndex1 == s.readIndex + 1
      odd == TRUE
  IN [s EXCEPT !.appendDecommitmentIndex = IF odd THEN @ - 1 ELSE @,
               !.appendDecommitments =
                  IF odd THEN Set(@, s.appendDecommitmentIndex - 1, skippedHash) ELSE @,
               !.hash = IF odd THEN skippedHash ELSE @,
               !.readIndexOfAppendNode = s.writeIndex,
               !.appendNodeIndex = @ \div 2,
               !.hashes = Set(@, s.writeIndex, skippedHash),
               !.useLeafs = IF s.useLeafs /\ readIndex1 = leafCount THEN FALSE ELSE @,
               !.readIndex = readIndex1 % leafCount,
               !.writeIndex = (s.writeIndex + 1) % leafCount,
               !.bitCheck = leftShift1(@)]

\* The skip case (lines 158-175).
getRootBitsSkip(a, s) ==
  LET leafCount == Len(a.leafs)
      skippedHash == ReadNode(s.useLeafs, a.leafs, s.hashes, s.readIndex)
      readIndex1 == s.readIndex + 1
      odd == s.appendNodeIndex % 2 = 1
  IN [s EXCEPT !.appendDecommitmentIndex = IF odd THEN @ - 1 ELSE @,
               !.appendDecommitments =
                  IF odd THEN Set(@, s.appendDecommitmentIndex - 1, skippedHash) ELSE @,
               !.hash = IF odd THEN skippedHash ELSE @,
               !.readIndexOfAppendNode = s.writeIndex,
               !.appendNodeIndex = @ \div 2,
               !.hashes = Set(@, s.writeIndex, skippedHash),
               !.useLeafs = IF s.useLeafs /\ readIndex1 = leafCount THEN FALSE ELSE @,
               !.readIndex = readIndex1 % leafCount,
               !.writeIndex = (s.writeIndex + 1) % leafCount,
               !.bitCheck = leftShift1(@)]

\* getRootBitsCombine advancing the decommitment cursor at every combination.
getRootBitsCombine_AlwaysConsumes(a, s) ==
  LET leafCount == Len(a.leafs)
      decommitments == a.proof.decommitments
      flag == BitSet(a.proof.flags, s.bitCheck)
      nextReadIndex == (s.readIndex + 1) % leafCount
      appendHash == IF flag THEN ReadNode(s.useLeafs, a.leafs, s.hashes, nextReadIndex)
                    ELSE At(decommitments, s.decommitmentIndex)
      atAppendNode == s.readIndexOfAppendNode = s.readIndex
      odd == atAppendNode /\ s.appendNodeIndex % 2 = 1
      hash1 == IF odd THEN HF(a, appendHash, s.hash) ELSE s.hash
      right == IF flag THEN ReadNode(s.useLeafs, a.leafs, s.hashes, s.readIndex)
               ELSE At(decommitments, s.decommitmentIndex)
      readIndex1 == (IF flag THEN s.readIndex + 1 ELSE s.readIndex) % leafCount
      left == ReadNode(s.useLeafs, a.leafs, s.hashes, readIndex1)
      readIndex2 == readIndex1 + 1
      node == HF(a, left, right)
  IN IF hash1 = Thrown \/ node = Thrown THEN [s EXCEPT !.pc = "thrown"]
     ELSE [s EXCEPT !.appendDecommitmentIndex = IF odd THEN @ - 1 ELSE @,
                    !.appendDecommitments =
                       IF odd THEN Set(@, s.appendDecommitmentIndex - 1, appendHash) ELSE @,
                    !.hash = hash1,
                    !.readIndexOfAppendNode = IF atAppendNode THEN s.writeIndex ELSE @,
                    !.appendNodeIndex = IF atAppendNode THEN @ \div 2 ELSE @,
                    !.decommitmentIndex = @ + 1,
                    !.hashes = Set(@, s.writeIndex, node),
                    !.useLeafs = IF s.useLeafs /\ readIndex2 = leafCount THEN FALSE ELSE @,
                    !.readIndex = readIndex2 % leafCount,
                    !.writeIndex = (s.writeIndex + 1) % leafCount,
                    !.bitCheck = leftShift1(@)]

\* The combine case (lines 178-205).
getRootBitsCombine(a, s) ==
  LET leafCount == Len(a.leafs)
      decommitments == a.proof.decommitments
      flag == BitSet(a.proof.flags, s.bitCheck)
      nextReadIndex == (s.readIndex + 1) % leafCount
      appendHash == IF flag THEN ReadNode(s.useLeafs, a.leafs, s.hashes, nextReadIndex)
                    ELSE At(decommitments, s.decommitmentIndex)
      atAppendNode == s.readIndexOfAppendNode = s.readIndex
      odd == atAppendNode /\ s.appendNodeIndex % 2 = 1
      hash1 == IF odd THEN HF(a, appendHash, s.hash) ELSE s.hash
      right == IF flag THEN ReadNode(s.useLeafs, a.leafs, s.hashes, s.readIndex)
               ELSE At(decommitments, s.decommitmentIndex)
      readIndex1 == (IF flag THEN s.readIndex + 1 ELSE s.readIndex) % leafCount
      left == ReadNode(s.useLeafs, a.leafs, s.hashes, readIndex1)
      readIndex2 == readIndex1 + 1
      node == HF(a, left, right)
  IN IF hash1 = Thrown \/ node = Thrown THEN [s EXCEPT !.pc = "thrown"]
     ELSE [s EXCEPT !.appendDecommitmentIndex = IF odd THEN @ - 1 ELSE @,
                    !.appendDecommitments =
                       IF odd THEN Set(@, s.appendDecommitmentIndex - 1, appendHash) ELSE @,
                    !.hash = hash1,
                    !.readIndexOfAppendNode = IF atAppendNode THEN s.writeIndex ELSE @,
                    !.appendNodeIndex = IF atAppendNode THEN @ \div 2 ELSE @,
                    !.decommitmentIndex = IF flag THEN @ ELSE @ + 1,
                    !.hashes = Set(@, s.writeIndex, node),
                    !.useLeafs = IF s.useLeafs /\ readIndex2 = leafCount THEN FALSE ELSE @,
                    !.readIndex = readIndex2 % leafCount,
                    !.writeIndex = (s.writeIndex + 1) % leafCount,
                    !.bitCheck = leftShift1(@)]

\* One iteration of the while (true) loop of getRootBits.
getRootBits(a, s) ==
  IF BitSet(a.proof.skips, s.bitCheck)
  THEN IF BitSet(a.proof.flags, s.bitCheck) THEN getRootBitsReturn(a, s)
       ELSE getRootBitsSkip(a, s)
  ELSE getRootBitsCombine(a, s)

\* ------------------------------------------------------------- getNewRootBooleans
\* Math.max(leafCount, (appendLeafs.length >>> 1) + 1)
NewHashesLength(a) ==
  IF Len(a.leafs) >= (Len(a.appendLeafs) \div 2) + 1 THEN Len(a.leafs)
  ELSE (Len(a.appendLeafs) \div 2) + 1

getNewRootBooleansEnter(a) ==
  [StIdle EXCEPT !.pc = "loop",
                 !.hashes = JsArray(Len(a.leafs)),
                 !.newHashes = JsArray(NewHashesLength(a)),
                 !.appendNodeIndex = a.elementCount,
                 !.appendDecommitmentIndex = bitCount32(a.elementCount),
                 !.appendDecommitments = JsArray(bitCount32(a.elementCount))]

\* The skip case (lines 247-270).
getNewRootBooleansSkip(a, s) ==
  LET leafCount == Len(a.leafs)
      skippedHash == ReadNode(s.useLeafs, a.leafs, s.hashes, s.readIndex)
      newSkippedHash == ReadNode(s.useLeafs, a.updateLeafs, s.newHashes, s.readIndex)
      readIndex1 == s.readIndex + 1
      odd == s.appendNodeIndex % 2 = 1
  IN [s EXCEPT !.appendDecommitmentIndex = IF odd THEN @ - 1 ELSE @,
               !.appendDecommitments =
                  IF odd THEN Set(@, s.appendDecommitmentIndex - 1, newSkippedHash) ELSE @,
               !.hash = IF odd THEN skippedHash ELSE @,
               !.readIndexOfAppendNode = s.writeIndex,
               !.appendNodeIndex = @ \div 2,
               !.hashes = Set(@, s.writeIndex, skippedHash),
               !.newHashes = Set(@, s.writeIndex, newSkippedHash),
               !.useLeafs = IF s.useLeafs /\ readIndex1 = leafCount THEN FALSE ELSE @,
               !.readIndex = readIndex1 % leafCount,
               !.writeIndex = (s.writeIndex + 1) % leafCount,
               !.i = @ + 1]

\* getNewRootBooleansCombine hashing the replacement of the left node into
\* the old tree.
getNewRootBooleansCombine_NewLeft(a, s) ==
  LET leafCount == Len(a.leafs)
      flag == BoolAt(a.flags, s.i)
      nextReadIndex == (s.readIndex + 1) % leafCount
      appendHash == IF flag THEN ReadNode(s.useLeafs, a.leafs, s.hashes, nextReadIndex)
                    ELSE At(a.decommitments, s.decommitmentIndex)
      newAppendHash == IF flag THEN ReadNode(s.useLeafs, a.updateLeafs, s.newHashes, nextReadIndex)
                       ELSE At(a.decommitments, s.decommitmentIndex)
      atAppendNode == s.readIndexOfAppendNode = s.readIndex
      odd == atAppendNode /\ s.appendNodeIndex % 2 = 1
      hash1 == IF odd THEN HF(a, appendHash, s.hash) ELSE s.hash
      right == IF flag THEN ReadNode(s.useLeafs, a.leafs, s.hashes, s.readIndex)
               ELSE At(a.decommitments, s.decommitmentIndex)
      newRight == IF flag THEN ReadNode(s.useLeafs, a.updateLeafs, s.newHashes, s.readIndex)
                  ELSE At(a.decommitments, s.decommitmentIndex)
      readIndex1 == (IF flag THEN s.readIndex + 1 ELSE s.readIndex) % leafCount
      left == ReadNode(s.useLeafs, a.leafs, s.hashes, readIndex1)
      newLeft == ReadNode(s.useLeafs, a.updateLeafs, s.newHashes, readIndex1)
      readIndex2 == readIndex1 + 1
      node == HF(a, newLeft, right)
      newNode == HF(a, newLeft, newRight)
  IN IF hash1 = Thrown \/ node = Thrown \/ newNode = Thrown THEN [s EXCEPT !.pc = "thrown"]
     ELSE [s EXCEPT !.appendDecommitmentIndex = IF odd THEN @ - 1 ELSE @,
                    !.appendDecommitments =
                       IF odd THEN Set(@, s.appendDecommitmentIndex - 1, newAppendHash) ELSE @,
                    !.hash = hash1,
                    !.readIndexOfAppendNode = IF atAppendNode THEN s.writeIndex ELSE @,
                    !.appendNodeIndex = IF atAppendNode THEN @ \div 2 ELSE @,
                    !.decommitmentIndex = IF flag THEN @ ELSE @ + 1,
                    !.hashes = Set(@, s.writeIndex, node),
                    !.newHashes = Set(@, s.writeIndex, newNode),
                    !.useLeafs = IF s.useLeafs /\ readIndex2 = leafCount THEN FALSE ELSE @,
                    !.readIndex = readIndex2 % leafCount,
                    !.writeIndex = (s.writeIndex + 1) % leafCount,
                    !.i = @ + 1]

\* The combine case (lines 272-318).
getNewRootBooleansCombine(a, s) ==
  LET leafCount == Len(a.leafs)
      flag == BoolAt(a.flags, s.i)
      nextReadIndex == (s.readIndex + 1) % leafCount
      appendHash == IF flag THEN ReadNode(s.useLeafs, a.leafs, s.hashes, nextReadIndex)
                    ELSE At(a.decommitments, s.decommitmentIndex)
      newAppendHash == IF flag THEN ReadNode(s.useLeafs, a.updateLeafs, s.newHashes, nextReadIndex)
                       ELSE At(a.decommitments, s.decommitmentIndex)
      atAppendNode == s.readIndexOfAppendNode = s.readIndex
      odd == atAppendNode /\ s.appendNodeIndex % 2 = 1
      hash1 == IF odd THEN HF(a, appendHash, s.hash) ELSE s.hash
      right == IF flag THEN ReadNode(s.useLeafs, a.leafs, s.hashes, s.readIndex)
               ELSE At(a.decommitments, s.decommitmentIndex)
      newRight == IF flag THEN ReadNode(s.useLeafs, a.updateLeafs, s.newHashes, s.readIndex)
                  ELSE At(a.decommitments, s.decommitmentIndex)
      readIndex1 == (IF flag THEN s.readIndex + 1 ELSE s.readIndex) % leafCount
      left == ReadNode(s.useLeafs, a.leafs, s.hashes, readIndex1)
      newLeft == ReadNode(s.useLeafs, a.updateLeafs, s.newHashes, readIndex1)
      readIndex2 == readIndex1 + 1
      node == HF(a, left, right)
      newNode == HF(a, newLeft, newRight)
  IN IF hash1 = Thrown \/ node = Thrown \/ newNode = Thrown THEN [s EXCEPT !.pc = "thrown"]
     ELSE [s EXCEPT !.appendDecommitmentIndex = IF odd THEN @ - 1 ELSE @,
                    !.appendDecommitments =
                       IF odd THEN Set(@, s.appendDecommitmentIndex - 1, newAppendHash) ELSE @,
                    !.hash = hash1,
                    !.readIndexOfAppendNode = IF atAppendNode THEN s.writeIndex ELSE @,
                    !.appendNodeIndex = IF atAppendNode THEN @ \div 2 ELSE @,
                    !.decommitmentIndex = IF flag THEN @ ELSE @ + 1,
                    !.hashes = Set(@, s.writeIndex, node),
                    !.newHashes = Set(@, s.writeIndex, newNode),
                    !.useLeafs = IF s.useLeafs /\ readIndex2 = leafCount THEN FALSE ELSE @,
                    !.readIndex = readIndex2 % leafCount,
                    !.writeIndex = (s.writeIndex + 1) % leafCount,
                    !.i = @ + 1]

\* getNewRootBooleansRoots reading the new root at writeIndex - 1 with no
\* wrap-around.
getNewRootBooleansRoots_NoWrap(a, s) ==
  LET leafCount == Len(a.leafs)
      rootIndex == (IF s.writeIndex = 0 THEN leafCount ELSE s.writeIndex) - 1
      oldRoot == IF s.useLeafs THEN At(a.leafs, 0) ELSE Get(s.hashes, rootIndex)
      newRoot == IF s.useLeafs THEN At(a.updateLeafs, 0) ELSE Get(s.newHashes, s.writeIndex - 1)
  IN IF s.appendDecommitmentIndex # 1 /\ (s.hash = Null \/ oldRoot = Null)
     THEN [s EXCEPT !.pc = "thrown"]
     ELSE IF s.appendDecommitmentIndex # 1 /\ s.hash # oldRoot
     THEN [s EXCEPT !.pc = "InvalidProof"]
     ELSE [s EXCEPT !.pc = "append",
                    !.oldRoot = oldRoot,
                    !.newRoot = newRoot,
                    !.appendDecommitments =
                       IF s.appendDecommitmentIndex = 1 THEN Set(@, 0, newRoot) ELSE @,
                    !.appendDecommitmentIndex = bitCount32(a.elementCount) - 1,
                    !.upperBound = a.elementCount + Len(a.appendLeafs) - 1,
                    !.writeIndex = 0,
                    !.readIndex = 0,
                    !.offset = a.elementCount,
                    !.index = a.elementCount]

\* After the flag loop (lines 321-339): both roots, the cross-check, the
\* append decommitment of a balanced tree, and the set-up of the append pass.
getNewRootBooleansRoots(a, s) ==
  LET leafCount == Len(a.leafs)
      rootIndex == (IF s.writeIndex = 0 THEN leafCount ELSE s.writeIndex) - 1
      oldRoot == IF s.useLeafs THEN At(a.leafs, 0) ELSE Get(s.hashes, rootIndex)
      newRoot == IF s.useLeafs THEN At(a.updateLeafs, 0) ELSE Get(s.newHashes, rootIndex)
  IN IF s.appendDecommitmentIndex # 1 /\ (s.hash = Null \/ oldRoot = Null)
     THEN [s EXCEPT !.pc = "thrown"]
     ELSE IF s.appendDecommitmentIndex # 1 /\ s.hash # oldRoot
     THEN [s EXCEPT !.pc = "InvalidProof"]
     ELSE [s EXCEPT !.pc = "append",
                    !.oldRoot = oldRoot,
                    !.newRoot = newRoot,
                    !.appendDecommitments =
                       IF s.appendDecommitmentIndex = 1 THEN Set(@, 0, newRoot) ELSE @,
                    !.appendDecommitmentIndex = bitCount32(a.elementCount) - 1,
                    !.upperBound = a.elementCount + Len(a.appendLeafs) - 1,
                    !.writeIndex = 0,
                    !.readIndex = 0,
                    !.offset = a.elementCount,
                    !.index = a.elementCount]

\* getNewRootBooleansAppend without the carry of an unpaired last node to
\* the next level (line 360).
getNewRootBooleansAppend_NoCarry(a, s) ==
  LET useLeafs == s.offset >= a.elementCount
      first == s.writeIndex = 0 /\ s.index % 2 = 1
      second == ~first /\ s.index < s.upperBound
      node == IF first
              THEN HF(a, Get(s.appendDecommitments, s.appendDecommitmentIndex),
                         ReadNode(useLeafs, a.appendLeafs, s.newHashes, s.readIndex))
              ELSE HF(a, ReadNode(useLeafs, a.appendLeafs, s.newHashes, s.readIndex),
                         ReadNode(useLeafs, a.appendLeafs, s.newHashes, s.readIndex + 1))
      newHashes1 == IF first \/ second THEN Set(s.newHashes, s.writeIndex, node) ELSE s.newHashes
      writeIndex1 == IF first \/ second THEN s.writeIndex + 1 ELSE s.writeIndex
      readIndex1 == IF first THEN s.readIndex + 1 ELSE IF second THEN s.readIndex + 2 ELSE s.readIndex
      index1 == IF first THEN s.index + 1 ELSE IF second THEN s.index + 2 ELSE s.index
      levelDone == index1 >= s.upperBound
      newHashes2 == newHashes1
  IN IF ~(s.upperBound > 0)
     THEN IF s.oldRoot = Null THEN [s EXCEPT !.pc = "thrown"]
          ELSE [s EXCEPT !.pc = "returned",
                         !.ret = [root |-> s.oldRoot, newRoot |-> Get(s.newHashes, 0)]]
     ELSE IF (first \/ second) /\ node = Thrown THEN [s EXCEPT !.pc = "thrown"]
     ELSE [s EXCEPT !.useLeafs = useLeafs,
                    !.newHashes = newHashes2,
                    !.appendDecommitmentIndex = IF first THEN @ - 1 ELSE @,
                    !.readIndex = IF levelDone THEN 0 ELSE readIndex1,
                    !.writeIndex = IF levelDone THEN 0 ELSE writeIndex1,
                    !.upperBound = IF levelDone THEN @ \div 2 ELSE @,
                    !.offset = IF levelDone THEN @ \div 2 ELSE @,
                    !.index = IF levelDone THEN s.offset \div 2 ELSE index1]

\* One evaluation of the head of the append loop and what follows it
\* (lines 341-370).
getNewRootBooleansAppend(a, s) ==
  LET useLeafs == s.offset >= a.elementCount
      first == s.writeIndex = 0 /\ s.index % 2 = 1
      second == ~first /\ s.index < s.upperBound
      node == IF first
              THEN HF(a, Get(s.appendDecommitments, s.appendDecommitmentIndex),
                         ReadNode(useLeafs, a.appendLeafs, s.newHashes, s.readIndex))
              ELSE HF(a, ReadNode(useLeafs, a.appendLeafs, s.newHashes, s.readIndex),
                         ReadNode(useLeafs, a.appendLeafs, s.newHashes, s.readIndex + 1))
      newHashes1 == IF first \/ second THEN Set(s.newHashes, s.writeIndex, node) ELSE s.newHashes
      writeIndex1 == IF first \/ second THEN s.writeIndex + 1 ELSE s.writeIndex
      readIndex1 == IF first THEN s.readIndex + 1 ELSE IF second THEN s.readIndex + 2 ELSE s.readIndex
      index1 == IF first THEN s.index + 1 ELSE IF second THEN s.index + 2 ELSE s.index
      levelDone == index1 >= s.upperBound
      newHashes2 == IF levelDone /\ index1 = s.upperBound
                    THEN Set(newHashes1, writeIndex1,
                             ReadNode(useLeafs, a.appendLeafs, newHashes1, readIndex1))
                    ELSE newHashes1
  IN IF ~(s.upperBound > 0)
     THEN IF s.oldRoot = Null THEN [s EXCEPT !.pc = "thrown"]
          ELSE [s EXCEPT !.pc = "returned",
                         !.ret = [root |-> s.oldRoot, newRoot |-> Get(s.newHashes, 0)]]
     ELSE IF (first \/ second) /\ node = Thrown THEN [s EXCEPT !.pc = "thrown"]
     ELSE [s EXCEPT !.useLeafs = useLeafs,
                    !.newHashes = newHashes2,
                    !.appendDecommitmentIndex = IF first THEN @ - 1 ELSE @,
                    !.readIndex = IF levelDone THEN 0 ELSE readIndex1,
                    !.writeIndex = IF levelDone THEN 0 ELSE writeIndex1,
                    !.upperBound = IF levelDone THEN @ \div 2 ELSE @,
                    !.offset = IF levelDone THEN @ \div 2 ELSE @,
                    !.index = IF levelDone THEN s.offset \div 2 ELSE index1]

\* One step of getNewRootBooleans.
getNewRootBooleans(a, s) ==
  IF s.pc = "append" THEN getNewRootBooleansAppend(a, s)
  ELSE IF s.i < Len(a.flags)
  THEN IF BoolAt(a.skips, s.i) THEN getNewRootBooleansSkip(a, s)
       ELSE getNewRootBooleansCombine(a, s)
  ELSE getNewRootBooleansRoots(a, s)

\* ------------------------------------------------------------- getNewRootBits
getNewRootBitsEnter(a) ==
  [StIdle EXCEPT !.pc = "loop",
                 !.bitCheck = {0},
                 !.hashes = JsArray(Len(a.leafs)),
                 !.newHashes = JsArray(NewHashesLength(a)),
                 !.appendNodeIndex = a.elementCount,
                 !.appendDecommitmentIndex = bitCount32(a.elementCount),
                 !.appendDecommitments = JsArray(bitCount32(a.elementCount))]

\* The end of the proof (lines 399-411) and the set-up of the append pass
\* (lines 482-487).
getNewRootBitsRoots(a, s) ==
  LET leafCount == Len(a.leafs)
      rootIndex == (IF s.writeIndex = 0 THEN leafCount ELSE s.writeIndex) - 1
      oldRoot == IF s.useLeafs THEN At(a.leafs, 0) ELSE Get(s.hashes, rootIndex)
      newRoot == IF s.useLeafs THEN At(a.updateLeafs, 0) ELSE Get(s.newHashes, rootIndex)
  IN IF s.appendDecommitmentIndex # 1 /\ (s.hash = Null \/ oldRoot = Null)
     THEN [s EXCEPT !.pc = "thrown"]
     ELSE IF s.appendDecommitmentIndex # 1 /\ s.hash # oldRoot
     THEN [s EXCEPT !.pc = "InvalidProof"]
     ELSE [s EXCEPT !.pc = "append",
                    !.oldRoot = oldRoot,
                    !.newRoot = newRoot,
                    !.hash = oldRoot,
                    !.appendDecommitments =
                       IF s.appendDecommitmentIndex = 1 THEN Set(@, 0, newRoot) ELSE @,
                    !.appendDecommitmentIndex = bitCount32(a.elementCount) - 1,
                    !.upperBound = a.elementCount + Len(a.appendLeafs) - 1,
                    !.writeIndex = 0,
                    !.readIndex = 0,
                    !.offset = a.elementCount,
                    !.index = a.elementCount]

\* The skip case (lines 413-432).
getNewRootBitsSkip(a, s) ==
  LET leafCount == Len(a.leafs)
      skippedHash == ReadNode(s.useLeafs, a.leafs, s.hashes, s.readIndex)
      newSkippedHash == ReadNode(s.useLeafs, a.updateLeafs, s.newHashes, s.readIndex)
      readIndex1 == s.readIndex + 1
      odd == s.appendNodeIndex % 2 = 1
  IN [s EXCEPT !.appendDecommitmentIndex = IF odd THEN @ - 1 ELSE @,
               !.appendDecommitments =
                  IF odd THEN Set(@, s.appendDecommitmentIndex - 1, newSkippedHash) ELSE @,
               !.hash = IF odd THEN skippedHash ELSE @,
               !.readIndexOfAppendNode = s.writeIndex,
               !.appendNodeIndex = @ \div 2,
               !.hashes = Set(@, s.writeIndex, skippedHash),
               !.newHashes = Set(@, s.writeIndex, newSkippedHash),
               !.useLeafs = IF s.useLeafs /\ readIndex1 = leafCount THEN FALSE ELSE @,
               !.readIndex = readIndex1 % leafCount,
               !.writeIndex = (s.writeIndex + 1) % leafCount,
               !.bitCheck = leftShift1(@)]

\* The combine case (lines 435-479); the append hashes are read only at an
\* odd right-most node.
getNewRootBitsCombine(a, s) ==
  LET leafCount == Len(a.leafs)
      decommitments == a.proof.decommitments
      flag == BitSet(a.proof.flags, s.bitCheck)
      atAppendNode == s.readIndexOfAppendNode = s.readIndex
      odd == atAppendNode /\ s.appendNodeIndex % 2 = 1
      nextReadIndex == (s.readIndex + 1) % leafCount
      appendHash == IF flag THEN ReadNode(s.useLeafs, a.leafs, s.hashes, nextReadIndex)
                    ELSE At(decommitments, s.decommitmentIndex)
      newAppendHash == IF flag THEN ReadNode(s.useLeafs, a.updateLeafs, s.newHashes, nextReadIndex)
                       ELSE At(decommitments, s.decommitmentIndex)
      hash1 == IF odd THEN HF(a, appendHash, s.hash) ELSE s.hash
      right == IF flag THEN ReadNode(s.useLeafs, a.leafs, s.hashes, s.readIndex)
               ELSE At(decommitments, s.decommitmentIndex)
      newRight == IF flag THEN ReadNode(s.useLeafs, a.updateLeafs, s.newHashes, s.readIndex)
                  ELSE At(decommitments, s.decommitmentIndex)
      readIndex1 == (IF flag THEN s.readIndex + 1 ELSE s.readIndex) % leafCount
      left == ReadNode(s.useLeafs, a.leafs, s.hashes, readIndex1)
      newLeft == ReadNode(s.useLeafs, a.updateLeafs, s.newHashes, readIndex1)
      readIndex2 == readIndex1 + 1
      node == HF(a, left, right)
      newNode == HF(a, newLeft, newRight)
  IN IF hash1 = Thrown \/ node = Thrown \/ newNode = Thrown THEN [s EXCEPT !.pc = "thrown"]
     ELSE [s EXCEPT !.appendDecommitmentIndex = IF odd THEN @ - 1 ELSE @,
                    !.appendDecommitments =
                       IF odd THEN Set(@, s.appendDecommitmentIndex - 1, newAppendHash) ELSE @,
                    !.hash = hash1,
                    !.readIndexOfAppendNode = IF atAppendNode THEN s.writeIndex ELSE @,
                    !.appendNodeIndex = IF atAppendNode THEN @ \div 2 ELSE @,
                    !.decommitmentIndex = IF flag THEN @ ELSE @ + 1,
                    !.hashes = Set(@, s.writeIndex, node),
                    !.newHashes = Set(@, s.writeIndex, newNode),
                    !.useLeafs = IF s.useLeafs /\ readIndex2 = leafCount THEN FALSE ELSE @,
                    !.readIndex = readIndex2 % leafCount,
                    !.writeIndex = (s.writeIndex + 1) % leafCount,
                    !.bitCheck = leftShift1(@)]

\* One evaluation of the head of the append loop and what follows it
\* (lines 489-518); the returned root is the copy of hash.
getNewRootBitsAppend(a, s) ==
  LET useLeafs == s.offset >= a.elementCount
      first == s.writeIndex = 0 /\ s.index % 2 = 1
      second == ~first /\ s.index < s.upperBound
      node == IF first
              THEN HF(a, Get(s.appendDecommitments, s.appendDecommitmentIndex),
                         ReadNode(useLeafs, a.appendLeafs, s.newHashes, s.readIndex))
              ELSE HF(a, ReadNode(useLeafs, a.appendLeafs, s.newHashes, s.readIndex),
                         ReadNode(useLeafs, a.appendLeafs, s.newHashes, s.readIndex + 1))
      newHashes1 == IF first \/ second THEN Set(s.newHashes, s.writeIndex, node) ELSE s.newHashes
      writeIndex1 == IF first \/ second THEN s.writeIndex + 1 ELSE s.writeIndex
      readIndex1 == IF first THEN s.readIndex + 1 ELSE IF second THEN s.readIndex + 2 ELSE s.readIndex
      index1 == IF first THEN s.index + 1 ELSE IF second THEN s.index + 2 ELSE s.index
      levelDone == index1 >= s.upperBound
      newHashes2 == IF levelDone /\ index1 = s.upperBound
                    THEN Set(newHashes1, writeIndex1,
                             ReadNode(useLeafs, a.appendLeafs, newHashes1, readIndex1))
                    ELSE newHashes1
  IN IF ~(s.upperBound > 0)
     THEN IF s.hash = Null THEN [s EXCEPT !.pc = "thrown"]
          ELSE [s EXCEPT !.pc = "returned",
                         !.ret = [root |-> s.hash, newRoot |-> Get(s.newHashes, 0)]]
     ELSE IF (first \/ second) /\ node = Thrown THEN [s EXCEPT !.pc = "thrown"]
     ELSE [s EXCEPT !.useLeafs = useLeafs,
                    !.newHashes = newHashes2,
                    !.appendDecommitmentIndex = IF first THEN @ - 1 ELSE @,
                    !.readIndex = IF levelDone THEN 0 ELSE readIndex1,
                    !.writeIndex = IF levelDone THEN 0 ELSE writeIndex1,
                    !.upperBound = IF levelDone THEN @ \div 2 ELSE @,
                    !.offset = IF levelDone THEN @ \div 2 ELSE @,
                    !.index = IF levelDone THEN s.offset \div 2 ELSE index1]

\* One step of getNewRootBits.
getNewRootBits(a, s) ==
  IF s.pc = "append" THEN getNewRootBitsAppend(a, s)
  ELSE IF BitSet(a.proof.skips, s.bitCheck)
  THEN IF BitSet(a.proof.flags, s.bitCheck) THEN getNewRootBitsRoots(a, s)
       ELSE getNewRootBitsSkip(a, s)
  ELSE getNewRootBitsCombine(a, s)

\* getRoot / getNewRoot: the packed encoding when a proof is given.
NoProof == [flags |-> {}, skips |-> {}, decommitments |-> <<>>, given |-> FALSE]

getRoot(a, s) == IF a.proof.given THEN getRootBits(a, s) ELSE getRootBooleans(a, s)
getRootEnter(a) == IF a.proof.given THEN getRootBitsEnter(a) ELSE getRootBooleansEnter(a)

getNewRoot(a, s) == IF a.proof.given THEN getNewRootBits(a, s) ELSE getNewRootBooleans(a, s)
getNewRootEnter(a) == IF a.proof.given THEN getNewRootBitsEnter(a) ELSE getNewRootBooleansEnter(a)

\* ------------------------------------------------------------- whole calls
\* The state in which a call of the boolean encoding ends.
RECURSIVE RunGetRootBooleans(_, _)
RunGetRootBooleans(a, s) ==
  IF s.pc # "loop" THEN s ELSE RunGetRootBooleans(a, getRootBooleans(a, s))

RECURSIVE RunGetNewRootBooleans(_, _)
RunGetNewRootBooleans(a, s) ==
  IF s.pc \notin {"loop", "append"} THEN s
  ELSE RunGetNewRootBooleans(a, getNewRootBooleans(a, s))

\* ------------------------------------------------------------- trees of any size and their flag proofs
\* The leaf hashes of a tree of n elements, left to right.
Leaves(n) == [k \in 1 .. n |-> <<10 + (k - 1)>>]

\* The root by full reconstruction, top down: a tree of more than one leaf
\* hashes the root of its largest complete left part (the largest power of
\* two below the size) with the root of the rest; a lone right-most node is
\* thereby carried up unchanged.
RECURSIVE LeftSize(_)
LeftSize(n) == IF n <= 2 THEN 1 ELSE 2 * LeftSize((n + 1) \div 2)

RECURSIVE MerkleRoot(_, _)
MerkleRoot(sortedHash, leaves) ==
  IF Len(leaves) = 1 THEN leaves[1]
  ELSE LET p == LeftSize(Len(leaves))
       IN getHashFunction(sortedHash,
                          MerkleRoot(sortedHash, SubSeq(leaves, 1, p)),
                          MerkleRoot(sortedHash, SubSeq(leaves, p + 1, Len(leaves))))

\* One level of a tree, bottom up: a sequence of nodes [h, known], known
\* when the node is a proven leaf or above one.
ParentNode(sortedHash, level, p) ==
  IF 2 * p <= Len(level)
  THEN [h |-> getHashFunction(sortedHash, level[2 * p - 1].h, level[2 * p].h),
        known |-> level[2 * p - 1].known \/ level[2 * p].known]
  ELSE level[2 * p - 1]

NextLevel(sortedHash, level) ==
  [p \in 1 .. ((Len(level) + 1) \div 2) |-> ParentNode(sortedHash, level, p)]

\* The flag, skip and decommitment of the pairings of one level, right to
\* left: a skip for a known node without sibling, flag 1 for two known
\* children, flag 0 and the unknown sibling as decommitment for one.
RECURSIVE EmitLevel(_, _, _)
EmitLevel(level, p, acc) ==
  IF p = 0 THEN acc
  ELSE LET left == level[2 * p - 1]
           hasRight == 2 * p <= Len(level)
           right == IF hasRight THEN level[2 * p] ELSE left
           emit(f, k) == [acc EXCEPT !.flags = Append(@, f), !.skips = Append(@, k)]
           acc1 == IF ~hasRight THEN (IF left.known THEN emit(FALSE, TRUE) ELSE acc)
                   ELSE IF left.known /\ right.known THEN emit(TRUE, FALSE)
                   ELSE IF left.known
                   THEN [emit(FALSE, FALSE) EXCEPT !.decommitments = Append(@, right.h)]
                   ELSE IF right.known
                   THEN [emit(FALSE, FALSE) EXCEPT !.decommitments = Append(@, left.h)]
                   ELSE acc
       IN EmitLevel(level, p - 1, acc1)

RECURSIVE GenerateLevels(_, _, _)
GenerateLevels(sortedHash, level, acc) ==
  IF Len(level) = 1 THEN acc
  ELSE GenerateLevels(sortedHash, NextLevel(sortedHash, level),
                      EmitLevel(level, (Len(level) + 1) \div 2, acc))

\* The boolean flag proof of the leaves at indices (a set of 0-based
\* positions) of a tree.
generate(sortedHash, leaves, indices) ==
  GenerateLevels(sortedHash,
                 [k \in 1 .. Len(leaves) |-> [h |-> leaves[k], known |-> (k - 1) \in indices]],
                 [flags |-> <<>>, skips |-> <<>>, decommitments |-> <<>>])

\* ------------------------------------------------------------- calls of the combined-proof decoder
\* The packed proof of a boolean proof: the words of flags and skips, each
\* followed by the end bit, then the decommitments.
PackedProof(flags, skips, decommitments) ==
  [flags |-> to32ByteBoolBuffer(Append(flags, TRUE)),
   skips |-> to32ByteBoolBuffer(Append(skips, TRUE)),
   decommitments |-> decommitments, given |-> TRUE]

\* The replacement leaves of an update: none changed, all changed, or the
\* first changed.
UpdateLeafs(kind, leafs) ==
  [k \in 1 .. Len(leafs) |->
     IF kind = "all" \/ (kind = "first" /\ k = 1) THEN <<Head(leafs[k]) + 10>> ELSE leafs[k]]

AppendLeafs(m) == [j \in 1 .. m |-> <<30 + j>>]

\* A call: the parameters object, and what the caller knows the proof to be
\* (kind, elements and indices are not read by the decoder).  flags and
\* skips are the boolean arrays also when the packed proof is given.
MakeCall(fn, bits, sortedHash, kind, n, indices, leafs, flags, skips, decommitments, upd, m) ==
  [fn |-> fn, sortedHash |-> sortedHash, kind |-> kind, indices |-> indices,
   elementCount |-> n, leafs |-> leafs,
   updateLeafs |-> IF fn = "getNewRoot" THEN UpdateLeafs(upd, leafs) ELSE <<>>,
   appendLeafs |-> IF fn = "getNewRoot" THEN AppendLeafs(m) ELSE <<>>,
   flags |-> flags, skips |-> skips, decommitments |-> decommitments,
   proof |-> IF bits THEN PackedProof(flags, skips, decommitments) ELSE NoProof]

\* A call with the proof generated for a non-empty set of leaves of a tree.
GeneratedCall(fn, bits, sortedHash, n, S, upd, m) ==
  LET indices == Descending(S)
      g == generate(sortedHash, Leaves(n), S)
  IN MakeCall(fn, bits, sortedHash, "generated", n, indices,
              [k \in 1 .. Len(indices) |-> Leaves(n)[indices[k] + 1]],
              g.flags, g.skips, g.decommitments, upd, m)

\* A call with arbitrary flags and skips of one length.
BoolSeqs(h) == UNION {[1 .. j -> BOOLEAN] : j \in 0 .. h}

ArbitraryCall(fn, bits, sortedHash, n, leafCount, flags, skips, d, upd, m) ==
  MakeCall(fn, bits, sortedHash, "arbitrary", n, <<>>,
           [k \in 1 .. leafCount |-> <<10 + (n - k)>>],
           flags, skips, [j \in 1 .. d |-> <<40 + j>>], upd, m)

UpdateKinds == {"same", "all", "first"}

\* The decommitments a proof reads at most: one for each pairing that is
\* neither a skip nor a combination of two known nodes.  Decommitments
\* beyond them are never read.
DecommitmentsRead(flags, skips) ==
  Cardinality({k \in 1 .. Len(flags) : ~flags[k] /\ ~skips[k]})

\* The calls with a generated proof.
InitGenerated ==
  \E n \in 1 .. MaxElementCount, bits \in BOOLEAN, sortedHash \in BOOLEAN :
    \E S \in (SUBSET (0 .. (n - 1))) \ {{}} :
       \/ call = GeneratedCall("getRoot", bits, sortedHash, n, S, "same", 0)
       \/ \E upd \in UpdateKinds, m \in 0 .. MaxAppend :
            call = GeneratedCall("getNewRoot", bits, sortedHash, n, S, upd, m)

\* The calls with arbitrary flags, skips and decommitments, for one or two
\* leaves.
InitArbitrary ==
  \E flags \in BoolSeqs(MaxHashCount) :
    \E skips \in [1 .. Len(flags) -> BOOLEAN], d \in 0 .. MaxHashCount,
       bits \in BOOLEAN, sortedHash \in BOOLEAN, n \in 1 .. MaxElementCount,
       leafCount \in 1 .. 2 :
       /\ d <= DecommitmentsRead(flags, skips)
       /\ \/ call = ArbitraryCall("getRoot", bits, sortedHash, n, leafCount,
                                  flags, skips, d, "same", 0)
          \/ \E upd \in {"same", "all"}, m \in 0 .. MaxAppend :
               call = ArbitraryCall("getNewRoot", bits, sortedHash, n, leafCount,
                                    flags, skips, d, upd, m)

InitFD ==
  /\ InitGenerated \/ InitArbitrary
  /\ st = IF call.fn = "getRoot" THEN getRootEnter(call) ELSE getNewRootEnter(call)
  /\ gen = GenIdle
  /\ ver = VerIdle
  /\ mi = MiIdle

GetRootBooleansStep ==
  /\ call.fn = "getRoot" /\ ~call.proof.given
  /\ st.pc = "loop"
  /\ st' = getRoot(call, st)
  /\ UNCHANGED <<gen, ver, call, mi>>

GetRootBitsStep ==
  /\ call.fn = "getRoot" /\ call.proof.given
  /\ st.pc = "loop"
  /\ st' = getRoot(call, st)
  /\ UNCHANGED <<gen, ver, call, mi>>

GetNewRootBooleansStep ==
  /\ call.fn = "getNewRoot" /\ ~call.proof.given
  /\ st.pc \in {"loop", "append"}
  /\ st' = getNewRoot(call, st)
  /\ UNCHANGED <<gen, ver, call, mi>>

GetNewRootBitsStep ==
  /\ call.fn = "getNewRoot" /\ call.proof.given
  /\ st.pc \in {"loop", "append"}
  /\ st' = getNewRoot(call, st)
  /\ UNCHANGED <<gen, ver, call, mi>>

NextFD == GetRootBooleansStep \/ GetRootBitsStep \/ GetNewRootBooleansStep \/ GetNewRootBitsStep

SpecFD == InitFD /\ [][NextFD]_vars

\* ------------------------------------------------------------- calls of the index-based multi-proof
\* What a caller hands to verifyMultiProof: the generated proof as it is, or
\* with one value or one decommitment replaced by a different digest, or
\* with another leafCount.
Replacements(g) == {<<99>>, g.tree[1], g.tree[2 * g.leafCount - 1]}

Tampers(g) ==
  {[kind |-> "none", pos |-> 0, with |-> Null]}
  \cup {[kind |-> "value", pos |-> k, with |-> d] :
          k \in 1 .. Len(g.values), d \in Replacements(g)}
  \cup {[kind |-> "decommitment", pos |-> k, with |-> d] :
          k \in 1 .. Len(g.decommitments), d \in Replacements(g)}
  \cup {[kind |-> "leafCount", pos |-> Pow2(d), with |-> Null] : d \in 0 .. (MaxDepth + 1)}

TamperApplies(g, t) ==
  CASE t.kind = "value" -> t.with # g.values[t.pos]
    [] t.kind = "decommitment" -> t.with # g.decommitments[t.pos]
    [] t.kind = "leafCount" -> t.pos # g.leafCount
    [] OTHER -> TRUE

Tampered(p, t) ==
  CASE t.kind = "value" -> [p EXCEPT !.values[t.pos] = t.with]
    [] t.kind = "decommitment" -> [p EXCEPT !.decommitments[t.pos] = t.with]
    [] t.kind = "leafCount" -> [p EXCEPT !.leafCount = t.pos]
    [] OTHER -> p

CallIdle == [fn |-> "idle"]

InitMP ==
  /\ \E d \in 0 .. MaxDepth, pattern \in {"distinct", "same"} :
       \E S \in (SUBSET (0 .. (Pow2(d) - 1))) \ {{}} :
         gen = generateMultiProofEnter(buildTree(pattern, Pow2(d)), Descending(S))
  /\ ver = VerIdle
  /\ call = CallIdle
  /\ st = StIdle
  /\ mi = MiIdle

GenerateIndex ==
  /\ gen.pc = "indices"
  /\ gen' = generateMultiProofIndex(gen)
  /\ UNCHANGED <<ver, call, st, mi>>

GenerateNode ==
  /\ gen.pc = "nodes"
  /\ gen' = generateMultiProofNode(gen)
  /\ UNCHANGED <<ver, call, st, mi>>

VerifyCall ==
  /\ gen.pc = "returned"
  /\ ver.pc = "idle"
  /\ \E t \in Tampers(gen) :
       /\ TamperApplies(gen, t)
       /\ ver' = verifyMultiProofEnter(Tampered(GeneratedProof(gen), t), t)
  /\ UNCHANGED <<gen, call, st, mi>>

VerifyLoop ==
  /\ ver.pc = "loop"
  /\ ver' = verifyMultiProofLoop(ver)
  /\ UNCHANGED <<gen, call, st, mi>>

NextMP == GenerateIndex \/ GenerateNode \/ VerifyCall \/ VerifyLoop

SpecMP == InitMP /\ [][NextMP]_vars

\* ============================================================= claims
\* C1 (round trip): verifyMultiProof, called with what generateMultiProof
\* returned for a balanced tree and a non-empty descending list of indices,
\* neither throws nor fails its assertion, every entry of its queue holds
\* the digest the tree has at that entry's tree index (each decommitment is
\* consumed at the node the generator emitted it for), and it returns true
\* with every decommitment consumed.
C1_RoundTrip ==
  (ver.pc # "idle" /\ ver.tamper.kind = "none") =>
     /\ ver.pc \in {"loop", "returned"}
     /\ \A k \in 1 .. Len(ver.queue) : ver.queue[k].value = gen.tree[ver.queue[k].index]
     /\ (ver.pc = "returned" => (ver.result = TRUE /\ ver.decommits = <<>>))

C1_Witness ==
  /\ ver.pc = "returned" /\ ver.tamper.kind = "none" /\ ver.result = TRUE
  /\ gen.leafCount = 4 /\ Len(gen.indices) = 2 /\ Len(gen.decommitments) = 2

\* C2 (tamper sensitivity): with one value or one decommitment of a
\* generated proof replaced by a different digest, verifyMultiProof returns
\* false.
C2_TamperSensitive ==
  (ver.tamper.kind \in {"value", "decommitment"} /\ ver.pc \notin {"idle", "loop"}) =>
     (ver.pc = "returned" /\ ver.result = FALSE)

C2_Witness ==
  /\ ver.pc = "returned" /\ ver.result = FALSE /\ ver.hashed >= 2
  /\ ver.tamper.kind = "decommitment" /\ ver.tamper.pos = Len(gen.decommitments)

\* C3 (mixed-root binding): called with a leafCount other than the one the
\* mixed root was built with, verifyMultiProof returns false at once: no
\* queue entry was made and no value or decommitment was hashed.
C3_MixedRootBinding ==
  (ver.tamper.kind = "leafCount" /\ ver.pc # "idle") =>
     /\ ver.pc = "returned" /\ ver.result = FALSE
     /\ ver.hashed = 0 /\ ver.queue = <<>>

C3_Witness ==
  /\ ver.pc = "returned" /\ ver.result = FALSE /\ ver.tamper.kind = "leafCount"
  /\ ver.leafCount = 2 /\ gen.leafCount = 4

\* ------------------------------------------------------------- the decoder's claims
Done == st.pc \in {"returned", "InvalidProof", "thrown"}

\* The proof was generated for the tree and proves its last leaf.
LastProven == call.indices # <<>> /\ call.indices[1] = call.elementCount - 1
WellFormed == call.kind = "generated" /\ LastProven

\* The leaves of the tree after the update: the proven ones replaced.
UpdatedLeaves ==
  [k \in 1 .. call.elementCount |->
     IF \E j \in 1 .. Len(call.indices) : call.indices[j] = k - 1
     THEN call.updateLeafs[CHOOSE j \in 1 .. Len(call.indices) : call.indices[j] = k - 1]
     ELSE Leaves(call.elementCount)[k]]

\* Append decommitments recorded through the back-to-front cursor.
Recorded == bitCount32(call.elementCount) - st.appendDecommitmentIndex

\* C4 (flag decoder): for a tree of elementCount leaves, a generated proof
\* of a set of leaves holding the last one and an order-independent hash,
\* getRootBooleans returns, and returns the root that the full
\* reconstruction of the tree from all its leaves gives.
C4_DecoderRoot ==
  (call.fn = "getRoot" /\ ~call.proof.given /\ WellFormed /\ call.sortedHash /\ Done) =>
     /\ st.pc = "returned"
     /\ st.ret.root = MerkleRoot(TRUE, Leaves(call.elementCount))

C4_Witness ==
  /\ call.fn = "getRoot" /\ ~call.proof.given /\ WellFormed /\ call.sortedHash
  /\ st.pc = "returned" /\ call.elementCount = 5 /\ call.indices = <<4, 1>>
  /\ \E k \in 1 .. Len(call.skips) : call.skips[k]

Expressible ==
  /\ Len(call.flags) = Len(call.skips)
  /\ Len(call.flags) < BitVectorBits
  /\ \A k \in 1 .. Len(call.flags) : ~(call.flags[k] /\ call.skips[k])

BooleansEnd ==
  IF call.fn = "getRoot" THEN RunGetRootBooleans(call, getRootBooleansEnter(call))
  ELSE RunGetNewRootBooleans(call, getNewRootBooleansEnter(call))

C6_BitsAsBooleans ==
  (call.fn \in {"getRoot", "getNewRoot"} /\ call.proof.given /\ Expressible /\ Done) =>
     /\ BooleansEnd.pc = st.pc
     /\ (st.pc = "returned" =>
           /\ BooleansEnd.ret = st.ret
           /\ (call.fn = "getRoot" => BooleansEnd.appendDecommitments = st.appendDecommitments))

C6_Witness ==
  /\ call.fn = "getRoot" /\ call.proof.given /\ Expressible /\ st.pc = "returned"
  /\ call.elementCount = 3 /\ Len(call.flags) = 2
  /\ st.appendDecommitments = BooleansEnd.appendDecommitments
  /\ st.appendDecommitmentIndex = 0

C8_RecordedIsPopcount ==
  (call.fn = "getRoot" /\ st.pc = "returned") => Recorded = bitCount32(call.elementCount)

\* C8 (amended): when getRootBooleans or getRootBits returns for a generated
\* proof holding the last leaf, the cursor has recorded
\* popcount(elementCount) append decommitments if elementCount is not a
\* power of two, and none if it is: the one append decommitment of a
\* balanced tree is the root itself and is not recorded.
C8_RecordedCount ==
  (call.fn = "getRoot" /\ WellFormed /\ st.pc = "returned") =>
     Recorded = (IF bitCount32(call.elementCount) = 1 THEN 0 ELSE bitCount32(call.elementCount))

C8_Witness ==
  /\ call.fn = "getRoot" /\ WellFormed /\ st.pc = "returned"
  /\ call.elementCount = 5 /\ Recorded = 2
  /\ \A k \in DOMAIN st.appendDecommitments : st.appendDecommitments[k] # Null

\* C9 as stated: with popcount(elementCount) > 1 a root is returned only if
\* the accumulated append root equals it.
C9_CrossChecked ==
  (call.fn \in {"getRoot", "getNewRoot"} /\ bitCount32(call.elementCount) > 1
   /\ st.pc = "returned") => st.hash = st.ret.root

\* ------------------------------------------------------------- calls of getMinimumIndex
\* The words with at most k bits set.
RECURSIVE WordsOfAtMost(_)
WordsOfAtMost(k) ==
  IF k = 0 THEN {{}}
  ELSE WordsOfAtMost(k - 1) \cup {w \cup {b} : w \in WordsOfAtMost(k - 1), b \in WordPositions}

\* The arguments: 0, every elementCount with at most MaxSetBits bits set,
\* and the largest 32-bit value.
ElementCounts == WordsOfAtMost(MaxSetBits) \cup {WordPositions}

InitMin ==
  /\ gen = GenIdle
  /\ ver = VerIdle
  /\ call = CallIdle
  /\ st = StIdle
  /\ mi \in {getMinimumIndexEnter(elementCount) : elementCount \in ElementCounts}

GetMinimumIndexStep ==
  /\ mi.pc = "loop"
  /\ mi' = getMinimumIndex(mi)
  /\ UNCHANGED <<gen, ver, call, st>>

NextMin == GetMinimumIndexStep

SpecMin == InitMin /\ [][NextMin]_vars

\* elementCount with its lowest set bit cleared
LowestCleared(word) == word \ {b \in word : \A c \in word : b <= c}

\* C10 as stated: for every elementCount from 1 to 2^32 - 1 getMinimumIndex
\* returns elementCount with its lowest set bit cleared, a non-negative
\* number less than elementCount.
C10_MinimumIndex ==
  (mi.pc \notin {"idle", "loop"} /\ mi.input # {}) =>
     /\ mi.pc = "returned"
     /\ mi.ret = Uint32(LowestCleared(mi.input))
     /\ ~mi.ret.neg
     /\ LessThan(mi.ret, Uint32(mi.input))

\* ------------------------------------------------------------- calls with arrays of different lengths
\* The calls of the boolean encoding whose skips are shorter or longer than
\* the flags, and the calls of getNewRoot whose updateLeafs are one leaf
\* shorter or longer than the leafs.
InitLen ==
  /\ \E flags \in BoolSeqs(MaxHashCount), skips \in BoolSeqs(MaxHashCount),
        d \in 0 .. 1, sortedHash \in BOOLEAN, n \in 1 .. MaxElementCount,
        leafCount \in 1 .. 2 :
        \/ /\ Len(flags) # Len(skips)
           /\ \/ call = ArbitraryCall("getRoot", FALSE, sortedHash, n, leafCount,
                                      flags, skips, d, "same", 0)
              \/ call = ArbitraryCall("getNewRoot", FALSE, sortedHash, n, leafCount,
                                      flags, skips, d, "all", 1)
        \/ /\ Len(flags) = Len(skips)
           /\ \E extra \in BOOLEAN :
                LET c == ArbitraryCall("getNewRoot", FALSE, sortedHash, n, leafCount,
                                       flags, skips, d, "all", 1)
                IN call = [c EXCEPT !.updateLeafs =
                                      IF extra THEN Append(@, <<29>>)
                                      ELSE SubSeq(@, 1, Len(@) - 1)]
  /\ st = IF call.fn = "getRoot" THEN getRootEnter(call) ELSE getNewRootEnter(call)
  /\ gen = GenIdle
  /\ ver = VerIdle
  /\ mi = MiIdle

NextLen == GetRootBooleansStep \/ GetNewRootBooleansStep

SpecLen == InitLen /\ [][NextLen]_vars

\* The parallel arrays of the call differ in length.
LengthMismatch ==
  \/ Len(call.flags) # Len(call.skips)
  \/ (call.fn = "getNewRoot" /\ Len(call.leafs) # Len(call.updateLeafs))

\* C11 as stated: a call of the flag decoder with flags and skips of
\* different lengths, or of the update variant with leafs and updateLeafs
\* of different lengths, fails at once: it never returns, and it performs
\* no iteration of the flag loop (no hash is computed).
C11_LengthChecked ==
  (call.fn \in {"getRoot", "getNewRoot"} /\ LengthMismatch) =>
     (st.pc \notin {"returned", "append"} /\ st.i = 0)

\* ------------------------------------------------------------- short inputs
\* The pairings of a proof that combine two nodes of the queue.
QueuePairings(flags, skips) ==
  Cardinality({k \in 1 .. Len(flags) : flags[k] /\ ~BoolAt(skips, k - 1)})

\* The proof consumes more than the call supplies: more decommitments than
\* there are, or more nodes than the queue holds (each pairing of two
\* queue nodes leaves one node less, and the queue starts with the leafs).
\* (A packed proof is read up to its end bit, so its arrays are counted
\* only when the packed words hold them as they are.)
ShortInput ==
  /\ call.proof.given => Expressible
  /\ \/ DecommitmentsRead(call.flags, call.skips) > Len(call.decommitments)
     \/ QueuePairings(call.flags, call.skips) >= Len(call.leafs)

\* C12 as stated: a call of getRoot or getNewRoot whose flags and skips
\* consume more decommitments than supplied, or more leaves / working
\* hashes than available, ends with the invalid-proof error; it does not
\* return, and it does not fail in another way.
C12_ShortInputFails ==
  (call.fn \in {"getRoot", "getNewRoot"} /\ ShortInput /\ Done) => st.pc = "InvalidProof"

\* ------------------------------------------------------------- the whole program
\* Any call of any of the functions.
Init == InitMP \/ InitFD \/ InitLen \/ InitMin

Next == NextMP \/ NextFD \/ NextMin

Spec == Init /\ [][Next]_vars

\* One step leaves the arrays the caller supplied as they were: the tree
\* and indices of generateMultiProof, the indices, values and decommitments
\* of verifyMultiProof, and every parameter of getRoot / getNewRoot.
ArraysKept ==
  /\ gen.pc # "idle" => (gen'.tree = gen.tree /\ gen'.indices = gen.indices)
  /\ ver.pc # "idle" => /\ ver'.indices = ver.indices
                        /\ ver'.values = ver.values
                        /\ ver'.decommitments = ver.decommitments
  /\ call.fn # "idle" => call' = call

\* C13 (no mutation of inputs): during and after any call of
\* generateMultiProof, verifyMultiProof, getRoot or getNewRoot, returning or
\* failing, the arrays the caller supplied keep their length and entries;
\* the verifier shifts a private copy of the decommitments, the decoder
\* reads them through a cursor.
C13_NoMutation == [][ArraysKept]_vars

C13_Witness ==
  /\ ver.pc = "returned" /\ ver.tamper.kind = "none"
  /\ ver.decommits = <<>> /\ Len(ver.decommitments) = 2
  /\ ver.decommitments = gen.decommitments

\* ------------------------------------------------------------- bitCount32 on all 32-bit values
\* A Number in 0 .. 2^32 - 1 is kept as two 16-bit halves, value
\* hi * 2^16 + lo, so that no value leaves the range of the model's
\* integers.  A sum or difference of Numbers is exact: its hi half is not
\* reduced, and ToWord reduces it modulo 2^32 as the bitwise operators do
\* with their operands.
Half == 65536

RECURSIVE SumPow2(_)
SumPow2(S) == IF S = {} THEN 0 ELSE LET b == CHOOSE x \in S : TRUE IN Pow2(b) + SumPow2(S \ {b})

\* The Number whose 1-bits are at the positions in bits.
NumberOf(bits) ==
  [hi |-> SumPow2({b - 16 : b \in {x \in bits : x >= 16}}),
   lo |-> SumPow2({x \in bits : x < 16})]

ToWord(x) == [hi |-> (x.hi + Half) % Half, lo |-> x.lo]

NumSub(x, y) ==
  LET borrow == IF x.lo < y.lo THEN 1 ELSE 0
  IN [hi |-> x.hi - y.hi - borrow, lo |-> x.lo - y.lo + borrow * Half]

NumAdd(x, y) ==
  [hi |-> x.hi + y.hi + ((x.lo + y.lo) \div Half), lo |-> (x.lo + y.lo) % Half]

\* x & mask
WordAnd(x, mask) ==
  [hi |-> BitAnd(ToWord(x).hi, mask.hi), lo |-> BitAnd(x.lo, mask.lo)]

\* x >>> k and x >> k for 0 < k < 16: >> fills the top k bits with bit 31.
ShiftRightUnsigned(x, k) ==
  LET w == ToWord(x)
  IN [hi |-> w.hi \div Pow2(k),
      lo |-> (w.lo \div Pow2(k)) + (w.hi % Pow2(k)) * Pow2(16 - k)]

ShiftRightSigned(x, k) ==
  LET w == ToWord(x)
      fill == IF w.hi >= Half \div 2 THEN Half - Pow2(16 - k) ELSE 0
  IN [hi |-> (w.hi \div Pow2(k)) + fill,
      lo |-> (w.lo \div Pow2(k)) + (w.hi % Pow2(k)) * Pow2(16 - k)]

ShiftRight(signed, x, k) ==
  IF signed THEN ShiftRightSigned(x, k) ELSE ShiftRightUnsigned(x, k)

\* (x * 0x1010101) modulo 2^32, for x <= 0x0f0f0f0f: the product is below
\* 2^53, so the Number is exact and its low 32 bits are those of the
\* integer product.  0x1010101 is 257 * 2^16 + 257.
MulWord(x) ==
  [hi |-> ((x.lo * 257) \div Half + x.hi * 257 + x.lo * 257) % Half,
   lo |-> (x.lo * 257) % Half]

\* x >>> 24 is the top byte; x >> 24 is the top byte read as a signed byte.
TopByte(signed, x) ==
  LET byte == x.hi \div 256
  IN IF signed /\ byte >= 128 THEN byte - 256 ELSE byte

Mask55 == [hi |-> 21845, lo |-> 21845]
Mask33 == [hi |-> 13107, lo |-> 13107]
Mask0f == [hi |-> 3855, lo |-> 3855]

\* One line of bitCount32, with >> (signed) or >>> as the shift.
bitCount32Line(signed, n, s) ==
  IF s.pc = "line1"
  THEN [s EXCEPT !.pc = "line2",
                 !.m = NumSub(n, WordAnd(ShiftRight(signed, n, 1), Mask55))]
  ELSE IF s.pc = "line2"
  THEN [s EXCEPT !.pc = "line3",
                 !.m = NumAdd(WordAnd(s.m, Mask33), WordAnd(ShiftRight(signed, s.m, 2), Mask33))]
  ELSE [s EXCEPT !.pc = "returned",
                 !.ret = TopByte(signed,
                           MulWord(WordAnd(NumAdd(s.m, ShiftRight(signed, s.m, 4)), Mask0f)))]

\* bitCount32 of utils/index.js, with >>.  The final line without its mask
\* (the sum of the nibble counts multiplied as it is):
bitCount32Signed_NoMask(n, s) ==
  IF s.pc # "line3" THEN bitCount32Line(TRUE, n, s)
  ELSE [s EXCEPT !.pc = "returned",
                 !.ret = TopByte(TRUE, MulWord(ToWord(NumAdd(s.m, ShiftRight(TRUE, s.m, 4)))))]

bitCount32Signed(n, s) == bitCount32Line(TRUE, n, s)

\* bitCount32 of the test harness, with >>>.
bitCount32Unsigned(n, s) == bitCount32Line(FALSE, n, s)

\* A call of one of the two: call.n is the argument as the set of its bit
\* positions, st the locals.
BitCountEnter == [pc |-> "line1", m |-> NumberOf({}), ret |-> 0]

bitCount32Call(c, s) ==
  IF c.signed THEN bitCount32Signed(NumberOf(c.n), s) ELSE bitCount32Unsigned(NumberOf(c.n), s)

\* The value a whole call returns.
BitCountResult(signed, bits) ==
  LET c == [fn |-> "bitCount32", signed |-> signed, n |-> bits]
  IN bitCount32Call(c, bitCount32Call(c, bitCount32Call(c, BitCountEnter))).ret

\* The arguments: the values with at most MaxSetBits bits set, and those
\* with at most MaxSetBits bits clear.
BitCountArguments ==
  WordsOfAtMost(MaxSetBits) \cup {WordPositions \ w : w \in WordsOfAtMost(MaxSetBits)}

InitBC ==
  /\ \E bits \in BitCountArguments, signed \in BOOLEAN :
       call = [fn |-> "bitCount32", signed |-> signed, n |-> bits]
  /\ st = BitCountEnter
  /\ gen = GenIdle
  /\ ver = VerIdle
  /\ mi = MiIdle

BitCountSignedStep ==
  /\ call.fn = "bitCount32" /\ call.signed
  /\ st.pc # "returned"
  /\ st' = bitCount32Call(call, st)
  /\ UNCHANGED <<gen, ver, call, mi>>

BitCountUnsignedStep ==
  /\ call.fn = "bitCount32" /\ ~call.signed
  /\ st.pc # "returned"
  /\ st' = bitCount32Call(call, st)
  /\ UNCHANGED <<gen, ver, call, mi>>

NextBC == BitCountSignedStep \/ BitCountUnsignedStep

SpecBC == InitBC /\ [][NextBC]_vars

\* C14 (population count): for every 32-bit unsigned n, bit 31 set or not,
\* each implementation of bitCount32 returns the number of 1-bits of n, and
\* so both return the same value; below 2^31 it is the value the decoder's
\* bitCount32 computes.
C14_BitCount ==
  (call.fn = "bitCount32" /\ st.pc = "returned") =>
     /\ st.ret = Cardinality(call.n)
     /\ st.ret = BitCountResult(~call.signed, call.n)
     /\ (31 \notin call.n => st.ret = bitCount32(SumPow2(call.n)))

C14_Witness ==
  /\ call.fn = "bitCount32" /\ call.signed /\ st.pc = "returned"
  /\ 31 \in call.n /\ Cardinality(call.n) = 31 /\ st.ret = 31

\* ------------------------------------------------------------- calls of the node combiner
\* The digests given to it: leaf digests and the nodes of two of them.
LeafDigests == {<<10 + k>> : k \in 0 .. (MaxLeafDigests - 1)}
Digests == LeafDigests \cup {hashNode(l, r) : l \in LeafDigests, r \in LeafDigests}

\* A call getHashFunction(sortedHash)(left, right): call holds the
\* arguments, st the returned digest.
InitHF ==
  /\ \E sortedHash \in BOOLEAN, left \in Digests, right \in Digests :
       call = [fn |-> "hashFunction", sortedHash |-> sortedHash, left |-> left, right |-> right]
  /\ st = [pc |-> "called", ret |-> Null]
  /\ gen = GenIdle
  /\ ver = VerIdle
  /\ mi = MiIdle

HashFunctionStep ==
  /\ call.fn = "hashFunction"
  /\ st.pc = "called"
  /\ st' = [pc |-> "returned", ret |-> getHashFunction(call.sortedHash, call.left, call.right)]
  /\ UNCHANGED <<gen, ver, call, mi>>

NextHF == HashFunctionStep

SpecHF == InitHF /\ [][NextHF]_vars

\* C15 (order-independent combination): with the sorted option the
\* combiner hashes the smaller digest (byte-wise) before the larger, and so
\* returns for (left, right) what it returns for (right, left); without it
\* the combiner hashes left before right, and returns for two different
\* digests another digest than for the swapped pair.
C15_SortedCombine ==
  (call.fn = "hashFunction" /\ st.pc = "returned") =>
     IF call.sortedHash
     THEN /\ st.ret = getHashFunction(TRUE, call.right, call.left)
          /\ st.ret = IF BufferCompare(call.left, call.right) <= 0
                      THEN hash(call.left \o call.right)
                      ELSE hash(call.right \o call.left)
     ELSE /\ st.ret = hash(call.left \o call.right)
          /\ (call.left # call.right => st.ret # getHashFunction(FALSE, call.right, call.left))

C15_Witness ==
  /\ call.fn = "hashFunction" /\ call.sortedHash /\ st.pc = "returned"
  /\ Len(call.left) > 1 /\ Len(call.right) > 1
  /\ BufferCompare(call.left, call.right) > 0
  /\ st.ret = hash(call.right \o call.left)

\* ------------------------------------------------------------- iterations of getRoot
\* Packed words without an end bit: no position has its skip bit and its
\* flag bit both set.  Every position is a skip, but for some of the first
\* three, which pair the node with a decommitment or (one of the first
\* two) with its neighbour in the queue.
AllPositions == 0 .. (BitVectorBits - 1)

InitEndless ==
  /\ \E pairs \in SUBSET (0 .. 2), d \in 0 .. MaxHashCount, sortedHash \in BOOLEAN,
        n \in 1 .. MaxElementCount, leafCount \in 1 .. 2 :
       \E flagged \in {F \in SUBSET (pairs \cap (0 .. 1)) : Cardinality(F) <= 1} :
          LET c == ArbitraryCall("getRoot", FALSE, sortedHash, n, leafCount,
                                 [k \in 1 .. BitVectorBits |-> (k - 1) \in flagged],
                                 [k \in 1 .. BitVectorBits |-> (k - 1) \notin pairs],
                                 d, "same", 0)
          IN call = [c EXCEPT !.kind = "endless",
                              !.proof = [flags |-> flagged, skips |-> AllPositions \ pairs,
                                         decommitments |-> c.decommitments, given |-> TRUE]]
  /\ st = getRootEnter(call)
  /\ gen = GenIdle
  /\ ver = VerIdle
  /\ mi = MiIdle

\* The calls of getRoot: generated, arbitrary and without end bit.
InitIter == (InitFD /\ call.fn = "getRoot") \/ InitEndless

NextIter == GetRootBooleansStep \/ GetRootBitsStep

SpecIter == InitIter /\ [][NextIter]_vars

\* The position of the proof the loop is at: i, or the bit of bitCheck
\* (the width of the word once the bit is shifted out).
Position(s) ==
  IF ~call.proof.given THEN s.i
  ELSE IF s.bitCheck = {} THEN BitVectorBits
  ELSE CHOOSE b \in s.bitCheck : TRUE

\* The position at which the proof ends: flags.length, or the first
\* position with skip bit and flag bit both set (the width of the word if
\* there is none).
EndPosition ==
  IF ~call.proof.given THEN Len(call.flags)
  ELSE LET ends == call.proof.flags \cap call.proof.skips
       IN IF ends = {} THEN BitVectorBits
          ELSE CHOOSE b \in ends : \A c \in ends : b <= c

\* C16 as stated: every call of getRootBooleans ends after exactly
\* flags.length iterations, every call of getRootBits exactly at the first
\* position with both bits set.
C16_ExactIterations ==
  (call.fn = "getRoot" /\ Done) => Position(st) = EndPosition

\* C16 (amended): each iteration of getRootBooleans / getRootBits moves one
\* position on and never past the end of the proof (flags.length, the first
\* position with both bits set, or the width of the word when there is no
\* such position), so every call terminates; a call that reaches the final
\* check (it returns or fails the invalid-proof assertion) has performed
\* exactly that many iterations, a call in which a hash computation throws
\* has performed fewer.
C16_Iterations ==
  /\ [](call.fn = "getRoot" =>
          /\ Position(st) <= EndPosition
          /\ (st.pc \in {"returned", "InvalidProof"} => Position(st) = EndPosition))
  /\ [][(call.fn = "getRoot" /\ st.pc = "loop" /\ st'.pc = "loop")
          => Position(st') = Position(st) + 1]_vars

C16_Witness ==
  /\ call.fn = "getRoot" /\ call.proof.given /\ st.pc = "returned"
  /\ call.proof.flags \cap call.proof.skips = {}
  /\ call.proof.skips # AllPositions
  /\ Position(st) = BitVectorBits

\* ------------------------------------------------------------- arbitrary calls of verifyMultiProof
\* Calls whose indices are in any order, repeated or not, for any leaf
\* count from 1, with a consistent mixed root and decommitments enough for
\* every entry to be merged with one on every level.
IndexSeqs(leafCount) ==
  UNION {[1 .. len -> 0 .. (leafCount - 1)] : len \in 1 .. MaxDepth}

InitVer ==
  /\ \E leafCount \in 1 .. Pow2(MaxDepth) :
       \E indices \in IndexSeqs(leafCount) :
          ver = verifyMultiProofEnter(
                  [mixedRoot |-> hashNode(to32ByteBuffer(leafCount), <<98>>),
                   root |-> <<98>>, leafCount |-> leafCount, indices |-> indices,
                   values |-> [k \in 1 .. Len(indices) |-> <<10 + indices[k]>>],
                   decommitments |-> [j \in 1 .. (Len(indices) * (MaxDepth + 1)) |-> <<40 + j>>]],
                  [kind |-> "arbitrary", pos |-> 0, with |-> Null])
  /\ gen = GenIdle
  /\ call = CallIdle
  /\ st = StIdle
  /\ mi = MiIdle

SpecVer == (InitMP \/ InitVer) /\ [][NextMP]_vars

\* The levels still to climb by the entries of the queue.
RECURSIVE QueueWeight(_)
QueueWeight(queue) ==
  IF queue = <<>> THEN 0 ELSE Log2(Head(queue).index) + 1 + QueueWeight(Tail(queue))

\* C17 (verifier termination): in a call of verifyMultiProof that enters
\* its queue loop, with decommitments enough, the queue is not empty at any
\* loop head and no iteration throws; an iteration that dequeues an entry of
\* tree index 1 returns whether the value of that entry equals the expected
\* root; any other iteration leaves the queue non-empty and lowers the
\* number of levels its entries have still to climb, so the loop ends, at
\* the first dequeued entry of tree index 1.
C17_VerifierTerminates ==
  /\ [](ver.pc \notin {"assert", "thrown"} /\ (ver.pc = "loop" => Len(ver.queue) >= 1))
  /\ [][ver.pc = "loop" =>
          IF Head(ver.queue).index = 1
          THEN ver'.pc = "returned" /\ ver'.result = (Head(ver.queue).value = ver.root)
          ELSE /\ ver'.pc = "loop"
               /\ Len(ver'.queue) >= 1
               /\ QueueWeight(ver'.queue) < QueueWeight(ver.queue)]_vars

C17_Witness ==
  /\ ver.pc = "returned" /\ ver.tamper.kind = "arbitrary"
  /\ ver.indices = <<0, 2>> /\ ver.leafCount = 3
  /\ ver.hashed = 2 /\ Len(ver.queue) = 1 /\ ver.result = FALSE

\* ------------------------------------------------------------- the generator's decommitments
\* Tree node j is a requested leaf or lies above one.
AboveRequested(j) ==
  \E k \in 1 .. Len(gen.indices), up \in 0 .. gen.depth :
     (gen.leafCount + gen.indices[k]) \div Pow2(up) = j

\* The tree positions whose values are the decommitments: for the internal
\* nodes from i down to 1, the child not above a requested leaf of every
\* node with exactly one child that is.
RECURSIVE DecommitmentPositions(_)
DecommitmentPositions(i) ==
  IF i = 0 THEN <<>>
  ELSE (IF AboveRequested(2 * i) /\ ~AboveRequested(2 * i + 1) THEN <<2 * i + 1>>
        ELSE IF AboveRequested(2 * i + 1) /\ ~AboveRequested(2 * i) THEN <<2 * i>>
        ELSE <<>>)
       \o DecommitmentPositions(i - 1)

\* C18 (generator decommitment rule): the decommitments generateMultiProof
\* returns are, for the internal nodes in descending tree index, the value
\* of the unknown child of every node with exactly one known child, one
\* each, and nothing for the nodes with two or no known children; none is
\* at the position of a requested leaf or of a node above one.
C18_DecommitmentRule ==
  gen.pc = "returned" =>
     LET positions == DecommitmentPositions(gen.leafCount - 1)
     IN /\ gen.decommitments = [k \in 1 .. Len(positions) |-> gen.tree[positions[k]]]
        /\ \A k \in 1 .. Len(positions) : ~AboveRequested(positions[k])
        /\ \A j \in 1 .. (2 * gen.leafCount - 1) : gen.known[j] = AboveRequested(j)

C18_Witness ==
  /\ gen.pc = "returned" /\ gen.leafCount = 4 /\ gen.indices = <<2, 0>>
  /\ gen.decommitments = <<gen.tree[7], gen.tree[5]>>
  /\ gen.tree[7] # gen.tree[5]

\* ------------------------------------------------------------- getNewRoot beside getRoot
\* getRoot on the parameters of a call, after k evaluations of its loop.
RECURSIVE GetRootAfter(_, _)
GetRootAfter(a, k) ==
  IF k = 0 THEN getRootEnter(a)
  ELSE LET s == GetRootAfter(a, k - 1)
       IN IF s.pc = "loop" THEN getRoot(a, s) ELSE s

\* The state in which getRoot ends on the parameters of a call.
RECURSIVE RunGetRoot(_, _)
RunGetRoot(a, s) == IF s.pc # "loop" THEN s ELSE RunGetRoot(a, getRoot(a, s))

\* The indices the two traversals share.
SameIndices(s, r) ==
  /\ s.readIndex = r.readIndex
  /\ s.writeIndex = r.writeIndex
  /\ s.decommitmentIndex = r.decommitmentIndex
  /\ s.appendNodeIndex = r.appendNodeIndex
  /\ s.readIndexOfAppendNode = r.readIndexOfAppendNode

\* C19 (lockstep of the update variant): at every step of the flag loop
\* of getNewRoot, getRoot on the same leafs, elementCount, flags, skips and
\* decommitments is at the same step with the same readIndex, writeIndex,
\* decommitmentIndex, appendNodeIndex and readIndexOfAppendNode; and when
\* getNewRoot returns, getRoot returns too and the root field is the root
\* getRoot returns.
C19_Lockstep ==
  call.fn = "getNewRoot" =>
     /\ st.pc = "loop" =>
          LET r == GetRootAfter(call, Position(st))
          IN r.pc = "loop" /\ Position(r) = Position(st) /\ SameIndices(st, r)
             /\ r.useLeafs = st.useLeafs /\ r.hashes = st.hashes
     /\ st.pc = "returned" =>
          LET r == RunGetRoot(call, getRootEnter(call))
          IN r.pc = "returned" /\ st.ret.root = r.ret.root

C19_Witness ==
  /\ call.fn = "getNewRoot" /\ st.pc = "returned"
  /\ call.updateLeafs # call.leafs
  /\ Len(call.flags) >= 2
  /\ st.ret.root = RunGetRoot(call, getRootEnter(call)).ret.root
  /\ st.ret.newRoot # st.ret.root

\* ------------------------------------------------------------- the root getRoot returns
\* The slot of hashes written by the last iteration of a call that
\* returned: every iteration writes one slot, at writeIndex, which starts
\* at 0 and advances by one modulo leafCount.
LastWritten == Get(st.hashes, (EndPosition - 1) % Len(call.leafs))

\* C20 (final root selection): the root getRootBooleans / getRootBits
\* returns is the hash most recently written to hashes; it is taken from
\* leafs (leafs[0]) only when leafCount is 1 and no iteration was performed.
C20_RootSelection ==
  (call.fn = "getRoot" /\ st.pc = "returned") =>
     /\ EndPosition > 0 => st.ret.root = LastWritten
     /\ st.useLeafs => (Len(call.leafs) = 1 /\ EndPosition = 0 /\ st.ret.root = call.leafs[1])
     /\ EndPosition = 0 => st.useLeafs

\* ------------------------------------------------------------- the decommitment cursor
\* flags[p] and skips[p] as the loop reads them at position p.
FlagAt(p) == IF call.proof.given THEN p \in call.proof.flags ELSE BoolAt(call.flags, p)
SkipAt(p) == IF call.proof.given THEN p \in call.proof.skips ELSE BoolAt(call.skips, p)

\* The positions before the end of the proof that are not skipped and have
\* flag 0.
ZeroFlagPositions == {p \in 0 .. (EndPosition - 1) : ~SkipAt(p) /\ ~FlagAt(p)}

\* One step of a decoder call moves the decommitment cursor as the
\* position it processed requires.
CursorStep ==
  (call.fn \in {"getRoot", "getNewRoot"} /\ st.pc \in {"loop", "append"}) =>
     /\ st'.decommitmentIndex >= st.decommitmentIndex
     /\ (st.pc = "loop" /\ st'.pc = "loop") =>
          st'.decommitmentIndex =
             IF ~SkipAt(Position(st)) /\ ~FlagAt(Position(st))
             THEN st.decommitmentIndex + 1 ELSE st.decommitmentIndex
     /\ st.pc = "append" => st'.decommitmentIndex = st.decommitmentIndex

\* C21 (decommitment consumption): in getRootBooleans, getRootBits and
\* getNewRoot the decommitment cursor never decreases, advances by exactly
\* one at each non-skipped position whose flag is 0 and stays where it is
\* at every skipped position and every position whose flag is 1; on return
\* the number of decommitments consumed is the number of zero flags among
\* the non-skipped positions.
C21_DecommitmentCursor ==
  /\ [][CursorStep]_vars
  /\ []((call.fn \in {"getRoot", "getNewRoot"} /\ st.pc = "returned") =>
          st.decommitmentIndex = Cardinality(ZeroFlagPositions))

C21_Witness ==
  /\ call.fn \in {"getRoot", "getNewRoot"} /\ st.pc = "returned"
  /\ st.decommitmentIndex = 2
  /\ Cardinality(ZeroFlagPositions) = 2
  /\ \E p \in 0 .. (EndPosition - 1) : SkipAt(p)
  /\ \E p \in 0 .. (EndPosition - 1) : ~SkipAt(p) /\ FlagAt(p)

\* ------------------------------------------------------------- contract Index_Multi_Proofs
\* bytes32 values are digests; bytes32(n) is the one-token encoding of the
\* number n, and bytes32(0) is also the initial value of a memory slot and
\* of storage.  A revert (a failed require, or an array index out of
\* bounds) undoes the transaction.
\*
\* Solidity leaves the order in which the operands of an expression are
\* evaluated unspecified.  In
\*     hashes[write_index++] = hash_node(bytes32(0), elements[write_index]);
\* the element read is elements[write_index] when the right-hand side is
\* evaluated first and elements[write_index + 1] when the index expression
\* of the left-hand side is; lhsFirst of a call says which.
Bytes32(n) == to32ByteBuffer(n)

\* keccak256 of the two words; never fails.
hash_node(left, right) == hash(left \o right)

\* require(hash_node(bytes32(total_element_count), element_root) == root)
validate(root, total_element_count, element_root) ==
  hash_node(Bytes32(total_element_count), element_root) = root

\* The value set_root stores.
set_root(total_element_count, element_root) ==
  hash_node(Bytes32(total_element_count), element_root)

\* The locals of get_root / get_roots.  Memory arrays are functions on
\* 0 .. index_count - 1.
RootIdle ==
  [pc |-> "idle", hashes |-> <<>>, new_hashes |-> <<>>, tree_indices |-> <<>>,
   write_index |-> 0, read_index |-> 0, decommitment_index |-> 0,
   ret |-> Null, new_ret |-> Null]

\* The element the loading loop reads for slot k (0-based): out of bounds
\* for the last slot when the left-hand side is evaluated first.
LoadedElement(a, elements, k) ==
  IF a.lhsFirst THEN At(elements, k + 1) ELSE At(elements, k)

\* get_root up to its main loop (lines 68-82).
get_rootEnter(a) ==
  LET index_count == Len(a.indices)
      slots == 0 .. (index_count - 1)
  IN IF index_count # Len(a.elements) THEN [RootIdle EXCEPT !.pc = "LENGTH_MISMATCH"]
     ELSE IF \E k \in slots : LoadedElement(a, a.elements, k) = Null
     THEN [RootIdle EXCEPT !.pc = "reverted"]
     ELSE [RootIdle EXCEPT
             !.pc = "loop",
             !.tree_indices = [k \in slots |-> a.total_element_count + a.indices[k + 1]],
             !.hashes = [k \in slots |-> hash_node(Bytes32(0), LoadedElement(a, a.elements, k))]]

\* One iteration of the main loop of get_root (lines 89-105).
get_rootLoop(a, g) ==
  LET index_count == Len(a.indices)
      index == g.tree_indices[g.read_index]
      index_is_odd == index % 2 = 1
      right == IF index_is_odd THEN g.hashes[g.read_index]
               ELSE At(a.decommitments, g.decommitment_index)
      read_index1 == (IF index_is_odd THEN g.read_index + 1 ELSE g.read_index) % index_count
      decommitment_index1 == IF index_is_odd THEN g.decommitment_index
                             ELSE g.decommitment_index + 1
      nextIsSibling == g.tree_indices[(read_index1 + 1) % index_count] = index - 1
      fromProof == index_is_odd /\ ~nextIsSibling
      left == IF fromProof THEN At(a.decommitments, decommitment_index1)
              ELSE g.hashes[read_index1]
  IN IF index_count = 0 THEN [g EXCEPT !.pc = "reverted"]
     ELSE IF index = 1
     THEN [g EXCEPT !.pc = "returned",
                    !.ret = g.hashes[(IF g.write_index = 0 THEN index_count
                                      ELSE g.write_index) - 1]]
     ELSE IF right = Null \/ left = Null THEN [g EXCEPT !.pc = "reverted"]
     ELSE [g EXCEPT !.tree_indices[g.write_index] = index \div 2,
                    !.hashes[g.write_index] = hash_node(left, right),
                    !.decommitment_index =
                       IF fromProof THEN decommitment_index1 + 1 ELSE decommitment_index1,
                    !.read_index =
                       (IF fromProof THEN read_index1 ELSE read_index1 + 1) % index_count,
                    !.write_index = (g.write_index + 1) % index_count]

\* get_roots up to its main loop (lines 125-139).
get_rootsEnter(a) ==
  LET index_count == Len(a.indices)
      slots == 0 .. (index_count - 1)
  IN IF index_count # Len(a.elements) \/ Len(a.new_elements) # Len(a.elements)
     THEN [RootIdle EXCEPT !.pc = "LENGTH_MISMATCH"]
     ELSE IF \E k \in slots : LoadedElement(a, a.new_elements, k) = Null
     THEN [RootIdle EXCEPT !.pc = "reverted"]
     ELSE [RootIdle EXCEPT
             !.pc = "loop",
             !.tree_indices = [k \in slots |-> a.total_element_count + a.indices[k + 1]],
             !.hashes = [k \in slots |-> hash_node(Bytes32(0), a.elements[k + 1])],
             !.new_hashes =
                [k \in slots |-> hash_node(Bytes32(0), LoadedElement(a, a.new_elements, k))]]

\* One iteration of the main loop of get_roots (lines 146-167).  hashes is
\* written (line 161) before the left operand of the new hash is read from
\* it (line 162).
get_rootsLoop(a, g) ==
  LET index_count == Len(a.indices)
      index == g.tree_indices[g.read_index]
      index_is_odd == index % 2 = 1
      right == IF index_is_odd THEN g.hashes[g.read_index]
               ELSE At(a.decommitments, g.decommitment_index)
      new_right == IF index_is_odd THEN g.new_hashes[g.read_index]
                   ELSE At(a.decommitments, g.decommitment_index)
      read_index1 == (IF index_is_odd THEN g.read_index + 1 ELSE g.read_index) % index_count
      decommitment_index1 == IF index_is_odd THEN g.decommitment_index
                             ELSE g.decommitment_index + 1
      left_flag == index_is_odd /\ ~(g.tree_indices[read_index1] = index - 1)
      left == IF left_flag THEN At(a.decommitments, decommitment_index1)
              ELSE g.hashes[read_index1]
      hashes1 == [g.hashes EXCEPT ![g.write_index] = hash_node(left, right)]
      new_left == IF left_flag THEN At(a.decommitments, decommitment_index1)
                  ELSE hashes1[read_index1]
      last == (IF g.write_index = 0 THEN index_count ELSE g.write_index) - 1
  IN IF index_count = 0 THEN [g EXCEPT !.pc = "reverted"]
     ELSE IF index = 1
     THEN [g EXCEPT !.pc = "returned", !.read_index = last,
                    !.ret = g.hashes[last], !.new_ret = g.new_hashes[last]]
     ELSE IF right = Null \/ left = Null THEN [g EXCEPT !.pc = "reverted"]
     ELSE [g EXCEPT !.hashes = hashes1,
                    !.new_hashes[g.write_index] = hash_node(new_left, new_right),
                    !.tree_indices[g.write_index] = index \div 2,
                    !.decommitment_index =
                       IF left_flag THEN decommitment_index1 + 1 ELSE decommitment_index1,
                    !.read_index =
                       (IF left_flag THEN read_index1 ELSE read_index1 + 1) % index_count,
                    !.write_index = (g.write_index + 1) % index_count]

\* The state in which get_root / get_roots ends.
RECURSIVE get_rootRun(_, _)
get_rootRun(a, g) == IF g.pc # "loop" THEN g ELSE get_rootRun(a, get_rootLoop(a, g))

get_root(a) == get_rootRun(a, get_rootEnter(a))

RECURSIVE get_rootsRun(_, _)
get_rootsRun(a, g) == IF g.pc # "loop" THEN g ELSE get_rootsRun(a, get_rootsLoop(a, g))

get_roots(a) == get_rootsRun(a, get_rootsEnter(a))

\* data_used after the first k elements (lines 116-118, 177-180).
RECURSIVE DataUsed(_, _)
DataUsed(elements, k) ==
  IF k = 0 THEN Bytes32(0) ELSE hash_node(DataUsed(elements, k - 1), elements[k])

\* new_elements of use_and_update: the running values of data_used.
NewElements(elements, index_count) ==
  [k \in 1 .. index_count |-> IF k <= Len(elements) THEN DataUsed(elements, k) ELSE Null]

\* use (lines 110-121): the outcome of the transaction on a contract whose
\* storage holds root.
use(a, root) ==
  LET g == get_root(a)
  IN IF g.pc # "returned" THEN [status |-> "reverted", root |-> root, data_used |-> Null]
     ELSE IF ~validate(root, a.total_element_count, g.ret)
     THEN [status |-> "INVALID_PROOF", root |-> root, data_used |-> Null]
     ELSE [status |-> "ok", root |-> root,
           data_used |-> DataUsed(a.elements, Len(a.indices))]

\* The arguments use_and_update hands to get_roots (lines 173-184).
WithNewElements(a) ==
  [a EXCEPT !.new_elements = NewElements(a.elements, Len(a.indices))]

\* use_and_update (lines 172-188).  elements[i] beyond the end of elements
\* reverts in the loop of lines 177-180.
use_and_update(a, root) ==
  LET g == get_roots(WithNewElements(a))
  IN IF Len(a.elements) < Len(a.indices) \/ g.pc # "returned"
     THEN [status |-> "reverted", root |-> root, data_used |-> Null]
     ELSE IF ~validate(root, a.total_element_count, g.ret)
     THEN [status |-> "INVALID_PROOF", root |-> root, data_used |-> Null]
     ELSE [status |-> "ok", root |-> set_root(a.total_element_count, g.new_ret),
           data_used |-> DataUsed(a.elements, Len(a.indices))]

\* ------------------------------------------------------------- trees of elements and their proofs
\* Most transactions sent to the contract after its root is set.
MaxTransactions == 2

\* The elements a tree starts with.
Elements(n) == [k \in 1 .. n |-> <<50 + k>>]

\* Node i of the balanced tree of the elements: index 1 the root, the leaves
\* hash_node(bytes32(0), element) at n .. 2n-1.
RECURSIVE ElementNode(_, _)
ElementNode(elements, i) ==
  IF i >= Len(elements) THEN hash_node(Bytes32(0), elements[i - Len(elements) + 1])
  ELSE hash_node(ElementNode(elements, 2 * i), ElementNode(elements, 2 * i + 1))

ElementRoot(elements) == ElementNode(elements, 1)

\* Node j is a leaf at one of the indices S or lies above one.
Proven(n, S, j) == \E s \in S, up \in 0 .. Log2(n) : (n + s) \div Pow2(up) = j

\* The decommitments of the leaves at S, for the internal nodes from i down
\* to 1: the child that is not proven of every node with one proven child.
RECURSIVE ElementDecommitments(_, _, _)
ElementDecommitments(elements, S, i) ==
  LET n == Len(elements)
  IN IF i = 0 THEN <<>>
     ELSE (IF Proven(n, S, 2 * i) /\ ~Proven(n, S, 2 * i + 1)
           THEN <<ElementNode(elements, 2 * i + 1)>>
           ELSE IF Proven(n, S, 2 * i + 1) /\ ~Proven(n, S, 2 * i)
           THEN <<ElementNode(elements, 2 * i)>>
           ELSE <<>>)
          \o ElementDecommitments(elements, S, i - 1)

\* The elements with those at indices (0-based, descending) replaced by
\* new_elements.
Replaced(elements, indices, new_elements) ==
  [k \in 1 .. Len(elements) |->
     IF \E j \in 1 .. Len(indices) : indices[j] = k - 1
     THEN new_elements[CHOOSE j \in 1 .. Len(indices) : indices[j] = k - 1]
     ELSE elements[k]]

\* What a sender does to a proof before sending it.
ProofTampers == {"none", "decommitment", "element", "short", "long", "count", "length"}

\* The arguments of a call proving the elements at S of a tree, tampered.
ProofCall(fn, elements, S, tamper, lhsFirst) ==
  LET n == Len(elements)
      indices == Descending(S)
      proven == [k \in 1 .. Len(indices) |-> elements[indices[k] + 1]]
      decommitments == ElementDecommitments(elements, S, n - 1)
  IN [fn |-> fn, tamper |-> tamper, lhsFirst |-> lhsFirst,
      total_element_count |-> IF tamper = "count" THEN 2 * n ELSE n,
      indices |-> indices,
      elements |-> CASE tamper = "element" -> [proven EXCEPT ![1] = <<98>>]
                     [] tamper = "length" -> SubSeq(proven, 1, Len(proven) - 1)
                     [] OTHER -> proven,
      new_elements |-> <<>>,
      decommitments |-> CASE tamper = "decommitment" /\ decommitments # <<>> ->
                                [decommitments EXCEPT ![1] = <<99>>]
                          [] tamper = "short" ->
                                SubSeq(decommitments, 1, Len(decommitments) - 1)
                          [] tamper = "long" -> Append(decommitments, <<97>>)
                          [] OTHER -> decommitments]

\* ------------------------------------------------------------- transactions of the contract
\* st holds the storage of the contract (root), the outcome of the last
\* transaction, and the elements of the tree the senders build their proofs
\* from; call holds the arguments of the last transaction.
ContractAfter(root, status, data_used, transactions, elements) ==
  [pc |-> "contract", root |-> root, status |-> status, data_used |-> data_used,
   transactions |-> transactions, elements |-> elements]

TreeSizes == {Pow2(d) : d \in 0 .. MaxDepth}

\* The contract after set_root for a tree of n elements.
InitChain ==
  /\ \E n \in TreeSizes :
       /\ call = [fn |-> "set_root", total_element_count |-> n]
       /\ st = ContractAfter(set_root(n, ElementRoot(Elements(n))), "ok", Null, 0, Elements(n))
  /\ gen = GenIdle
  /\ ver = VerIdle
  /\ mi = MiIdle

SetRootStep ==
  /\ st.pc = "contract" /\ st.transactions < MaxTransactions
  /\ \E n \in TreeSizes :
       /\ call' = [fn |-> "set_root", total_element_count |-> n]
       /\ st' = ContractAfter(set_root(n, ElementRoot(Elements(n))), "ok", Null,
                              st.transactions + 1, Elements(n))
  /\ UNCHANGED <<gen, ver, mi>>

DebugSetRootStep ==
  /\ st.pc = "contract" /\ st.transactions < MaxTransactions
  /\ call' = [fn |-> "_debug_set_root", total_element_count |-> 0]
  /\ st' = ContractAfter(Bytes32(0), "ok", Null, st.transactions + 1, st.elements)
  /\ UNCHANGED <<gen, ver, mi>>

UseStep ==
  /\ st.pc = "contract" /\ st.transactions < MaxTransactions
  /\ \E S \in (SUBSET (0 .. (Len(st.elements) - 1))) \ {{}},
        tamper \in ProofTampers, lhsFirst \in BOOLEAN :
       LET a == ProofCall("use", st.elements, S, tamper, lhsFirst)
           r == use(a, st.root)
       IN /\ call' = a
          /\ st' = ContractAfter(r.root, r.status, r.data_used, st.transactions + 1,
                                 st.elements)
  /\ UNCHANGED <<gen, ver, mi>>

UseAndUpdateStep ==
  /\ st.pc = "contract" /\ st.transactions < MaxTransactions
  /\ \E S \in (SUBSET (0 .. (Len(st.elements) - 1))) \ {{}},
        tamper \in ProofTampers, lhsFirst \in BOOLEAN :
       LET a == ProofCall("use_and_update", st.elements, S, tamper, lhsFirst)
           r == use_and_update(a, st.root)
       IN /\ call' = a
          /\ st' = ContractAfter(r.root, r.status, r.data_used, st.transactions + 1,
                                 IF r.status = "ok"
                                 THEN Replaced(st.elements, a.indices,
                                               NewElements(a.elements, Len(a.indices)))
                                 ELSE st.elements)
  /\ UNCHANGED <<gen, ver, mi>>

NextChain == SetRootStep \/ DebugSetRootStep \/ UseStep \/ UseAndUpdateStep

SpecChain == InitChain /\ [][NextChain]_vars

\* The stored root is the one set_root stores for the tree of the elements.
Committed(s) == s.root = set_root(Len(s.elements), ElementRoot(s.elements))

\* What the claim requires of one transaction.
RootBinding ==
  (st.pc = "contract" /\ st'.transactions = st.transactions + 1) =>
     /\ call'.fn = "use_and_update" =>
          LET g == get_roots(WithNewElements(call'))
              checked == /\ Len(call'.elements) >= Len(call'.indices)
                         /\ g.pc = "returned"
                         /\ hash_node(Bytes32(call'.total_element_count), g.ret) = st.root
          IN /\ st'.status = "ok" <=> checked
             /\ st'.status # "ok" => st'.root = st.root
             /\ (st'.status = "ok" /\ Committed(st)) =>
                   st'.root = hash_node(Bytes32(call'.total_element_count),
                                        ElementRoot(st'.elements))
     /\ call'.fn = "use" => st'.root = st.root

\* C22 (on-chain root binding): use_and_update replaces the stored root
\* only when hash_node(total_element_count, old element root reconstructed
\* from the proof) equals the stored root, and then the stored root becomes
\* hash_node(total_element_count, new element root), the root of the tree
\* with the proven elements replaced; when the check fails the call
\* reverts and the stored root is unchanged; use never changes the stored
\* root.
C22_RootBinding == [][RootBinding]_vars

\* ------------------------------------------------------------- calls of get_root and get_roots
\* The calls of get_root and of get_roots on the proof of some elements of a
\* tree, as it is or tampered; new_elements are the elements themselves or
\* the values use_and_update computes.
InitRoots ==
  /\ \E n \in TreeSizes :
       \E S \in (SUBSET (0 .. (n - 1))) \ {{}}, tamper \in ProofTampers,
          lhsFirst \in BOOLEAN, fn \in {"get_root", "get_roots"}, same \in BOOLEAN :
          LET a == ProofCall(fn, Elements(n), S, tamper, lhsFirst)
          IN /\ call = [a EXCEPT !.new_elements =
                                    IF fn = "get_root" THEN <<>>
                                    ELSE IF same THEN a.elements
                                    ELSE NewElements(a.elements, Len(a.elements))]
             /\ st = IF fn = "get_root" THEN get_rootEnter(call) ELSE get_rootsEnter(call)
  /\ gen = GenIdle
  /\ ver = VerIdle
  /\ mi = MiIdle

GetRootLoopStep ==
  /\ call.fn = "get_root" /\ st.pc = "loop"
  /\ st' = get_rootLoop(call, st)
  /\ UNCHANGED <<gen, ver, call, mi>>

GetRootsLoopStep ==
  /\ call.fn = "get_roots" /\ st.pc = "loop"
  /\ st' = get_rootsLoop(call, st)
  /\ UNCHANGED <<gen, ver, call, mi>>

NextRoots == GetRootLoopStep \/ GetRootsLoopStep

SpecRoots == InitRoots /\ [][NextRoots]_vars

\* C23 (agreement of the two on-chain reconstructions): when get_roots
\* returns, get_root on the same total_element_count, indices, elements and
\* decommitments returns the first component, having consumed the same
\* decommitments (the cursors are equal); and when new_elements equals
\* elements the two components of get_roots are equal.
C23_ReconstructionsAgree ==
  (call.fn = "get_roots" /\ st.pc = "returned") =>
     /\ LET r == get_root(call)
        IN /\ r.pc = "returned"
           /\ r.ret = st.ret
           /\ r.decommitment_index = st.decommitment_index
     /\ call.new_elements = call.elements => st.new_ret = st.ret

\* ------------------------------------------------------------- the cursors of the decoder
\* The number of bits set in a non-negative number.
RECURSIVE PopCount(_)
PopCount(n) == IF n = 0 THEN 0 ELSE (n % 2) + PopCount(n \div 2)

\* readIndex and writeIndex are indices of the queue of leafCount slots.
InQueue(s) ==
  /\ s.readIndex \in 0 .. (Len(call.leafs) - 1)
  /\ s.writeIndex \in 0 .. (Len(call.leafs) - 1)

\* The cursor moves only down by one, together with the halving of an odd
\* appendNodeIndex.
RecordStep ==
  (call.fn \in {"getRoot", "getNewRoot"} /\ st.pc = "loop" /\ st'.pc = "loop"
     /\ st'.appendDecommitmentIndex # st.appendDecommitmentIndex) =>
        /\ st'.appendDecommitmentIndex = st.appendDecommitmentIndex - 1
        /\ st.appendNodeIndex % 2 = 1
        /\ st'.appendNodeIndex = st.appendNodeIndex \div 2

\* C24 as stated: in getRootBooleans, getRootBits and getNewRoot, at every
\* loop head, appendDecommitmentIndex is within 0 .. popcount(elementCount)
\* and readIndex and writeIndex are within 0 .. leafCount - 1.
C24_CursorsEverywhere ==
  (call.fn \in {"getRoot", "getNewRoot"} /\ st.pc \in {"loop", "append"}) =>
     /\ st.appendDecommitmentIndex \in 0 .. PopCount(call.elementCount)
     /\ InQueue(st)

\* C24 (amended): for arbitrary flags and skips, at every head of the flag
\* loop of getRootBooleans, getRootBits and getNewRoot the cursor
\* appendDecommitmentIndex is within 0 .. popcount(elementCount) (it is
\* the number of bits set in appendNodeIndex, and is decremented only
\* together with a halving of an odd appendNodeIndex) and readIndex and
\* writeIndex are within 0 .. leafCount - 1; in the append pass of
\* getNewRoot the cursor, reused to read the append decommitments, is within
\* -1 .. popcount(elementCount) - 1.
C24_Cursors ==
  /\ []((call.fn \in {"getRoot", "getNewRoot"} /\ st.pc = "loop") =>
          /\ st.appendDecommitmentIndex \in 0 .. PopCount(call.elementCount)
          /\ st.appendDecommitmentIndex = PopCount(st.appendNodeIndex)
          /\ InQueue(st))
  /\ []((call.fn = "getNewRoot" /\ st.pc = "append") =>
          st.appendDecommitmentIndex \in -1 .. (PopCount(call.elementCount) - 1))
  /\ [][RecordStep]_vars

C24_Witness ==
  /\ call.fn \in {"getRoot", "getNewRoot"} /\ call.kind = "arbitrary"
  /\ st.pc = "loop"
  /\ PopCount(call.elementCount) = 2
  /\ st.appendDecommitmentIndex = 0
  /\ Len(call.leafs) = 2 /\ st.readIndex = 0 /\ st.writeIndex = 0

====
